---- MODULE Spec2Model ----
(***************************************************************************)
(* Publish engine of markdown-confluence: the remote tree resolver         *)
(* (TreeConfluence: ensureAllFilesExistInConfluence,                       *)
(* createFileStructureInConfluence, ensurePageExists, flattenTree) and the *)
(* Publisher (publish, publishFile, updatePageContent), run against a      *)
(* versioned remote content tree that another editor may change.           *)
(*                                                                         *)
(* One step of the model is the code between two suspension points: the    *)
(* remote serves one call and the caller runs on to its next await.        *)
(***************************************************************************)
EXTENDS Integers, Sequences, FiniteSets, TLC

\* ------------------------------------------------------------------ bounds
\* Remote calls that may fail with a transport error in one behaviour.
MaxFaults == 1
\* Edits the other editor may make in one behaviour.
MaxEdits == 1
\* publish() calls made on the one Publisher instance.
MaxRuns == 2

\* ------------------------------------------------------------- identities
Me == "me"
Other == "other"

\* --------------------------------------------------------------- the tree
\* Non-root nodes of the local tree; 0 is the root (never a publish unit).
Nodes == {1, 2}
Root == 0
\* The shapes of the local tree: node 2 is a sibling or a child of node 1.
Trees == {[n \in Nodes |-> Root], [n \in Nodes |-> IF n = 1 THEN Root ELSE 1]}

\* ------------------------------------------------------------ remote ids
NoPage == "none"
HomePage == "home"
TopPage == "top"
\* The page a node's document may already have on the remote, and the id
\* the remote gives to the page created for it.
CandId == [n \in Nodes |-> IF n = 1 THEN "e1" ELSE "e2"]
NewId == [n \in Nodes |-> IF n = 1 THEN "n1" ELSE "n2"]
GoneId == "gone"
PageIds == {HomePage, TopPage} \cup {CandId[n] : n \in Nodes} \cup {NewId[n] : n \in Nodes}

ContentTypes == {"page", "blogpost"}
TitleOf == [n \in Nodes |-> IF n = 1 THEN "t1" ELSE "t2"]
PathOf == [n \in Nodes |-> IF n = 1 THEN "/docs/a.md" ELSE "/docs/b.md"]
OtherTitle == "tx"

\* ------------------------------------------------------- document bodies
\* A body is one text node: its text, its marks (order irrelevant) and the
\* media it embeds ("none", a local reference, or an uploaded attachment).
LocalBody(n, rich) ==
    [text |-> TitleOf[n], marks |-> <<"strong", "em">>,
     media |-> IF rich THEN "local:img" ELSE "none"]
blankPageAdf == [text |-> "Page not published yet", marks |-> <<>>, media |-> "none"]
EmptyDoc == [text |-> "", marks |-> <<>>, media |-> "none"]
OtherBody == [text |-> "edited by other", marks |-> <<>>, media |-> "none"]

\* The asset a rich document references: its upload key and content hash.
AssetKey == "pathmd5-img.png"
AssetHash == "h1"
StaleHash == "h0"
AssetFileId == "file-img"

\* ----------------------------------------------------- equality utilities
ArrayProps == {"ancestors", "marks"}
MarkRank == [m \in {"em", "strong"} |-> IF m = "em" THEN 1 ELSE 2]

\* isEqual on the plain objects it is given here: objects whose properties
\* are primitives or (ancestors, marks) arrays; the same number of own
\* properties, and every property of the first equal in the second, arrays
\* by length and then element by element.
isEqual(obj1, obj2) ==
    /\ Cardinality(DOMAIN obj1) = Cardinality(DOMAIN obj2)
    /\ \A prop \in DOMAIN obj1 :
          /\ prop \in DOMAIN obj2
          /\ IF prop \in ArrayProps
                THEN /\ Len(obj1[prop]) = Len(obj2[prop])
                     /\ \A i \in 1..Len(obj1[prop]) : obj1[prop][i] = obj2[prop][i]
                ELSE obj1[prop] = obj2[prop]

sortDeep(marks) == SortSeq(marks, LAMBDA a, b : MarkRank[a] < MarkRank[b])

orderMarks(adf) == [adf EXCEPT !.marks = sortDeep(adf.marks)]

adfEqual(first, second) == isEqual(orderMarks(first), orderMarks(second))

\* A body as the pipeline leaves it once its asset is an attachment.
Published(adf) ==
    [adf EXCEPT !.media = IF adf.media = "local:img" THEN AssetFileId ELSE adf.media]

\* The marks of a body in another order (the same document to adfEqual).
Reordered(adf) == [adf EXCEPT !.marks = <<adf.marks[2], adf.marks[1]>>]

\* ------------------------------------------------------------ scenarios
\* What a node's document is and what the remote holds for it before the
\* run.  pin: the page id pinned in the document ("own": the candidate page,
\* "gone": a page that no longer exists, "first": the candidate page of
\* node 1).  rk: where the candidate page is
\* ("absent", "in" the top page's subtree, "out" of it).  rsame: the
\* candidate page holds the document's title, body, labels and asset.
Prof(ctype, pin, dc, rich, rk, rtype, rby, rsame) ==
    [ctype |-> ctype, pin |-> pin, dc |-> dc, rich |-> rich,
     rk |-> rk, rtype |-> rtype, rby |-> rby, rsame |-> rsame,
     title |-> "own",
     tags |-> IF rich THEN <<"a">> ELSE <<>>,
     rlabels |-> IF rsame THEN (IF rich THEN {"a"} ELSE {}) ELSE {"b"}]

\* A document found by title inside the tree, with the given tags, on a page
\* that holds the given labels.
Labelled(rsame, tags, rlabels) ==
    [Prof("page", "none", FALSE, FALSE, "in", "page", Me, rsame) EXCEPT
        !.tags = tags, !.rlabels = rlabels]

\* A new document whose front matter gives it the title of node 1.
Retitled ==
    [Prof("page", "none", FALSE, FALSE, "absent", "page", Me, FALSE) EXCEPT
        !.title = TitleOf[1]]

Profiles ==
    \* nothing on the remote: the page is created
    {Prof("page", "none", FALSE, rich, "absent", "page", Me, FALSE) : rich \in BOOLEAN}
    \cup {Prof("blogpost", "none", FALSE, FALSE, "absent", "blogpost", Me, FALSE)}
    \* the pinned page was deleted
    \cup {Prof("page", "gone", FALSE, FALSE, "absent", "page", Me, FALSE)}
    \* found by title, inside the tree
    \cup {Prof("page", "none", FALSE, rich, "in", "page", Me, rsame) :
             rich \in BOOLEAN, rsame \in BOOLEAN}
    \cup {Prof("page", "none", FALSE, FALSE, "in", "page", Other, FALSE)}
    \* found by title, outside the tree
    \cup {Prof("page", "none", FALSE, FALSE, "out", "page", Me, FALSE)}
    \cup {Prof("blogpost", "none", FALSE, FALSE, "out", "blogpost", Me, FALSE)}
    \* pinned
    \cup {Prof("page", "own", dc, FALSE, "in", "page", Me, rsame) :
             dc \in BOOLEAN, rsame \in BOOLEAN}
    \cup {Prof("page", "own", FALSE, FALSE, "in", "page", Other, FALSE)}
    \cup {Prof("page", "own", dc, FALSE, "out", "page", Me, FALSE) : dc \in BOOLEAN}
    \cup {Prof("page", "own", FALSE, FALSE, "out", "blogpost", Me, FALSE)}
    \cup {Prof("blogpost", "own", FALSE, FALSE, "out", "blogpost", Me, FALSE)}
    \* labels: one tag added; two to remove and one to add; two to add
    \cup {Labelled(TRUE, <<"a">>, {}),
          Labelled(TRUE, <<"a", "c">>, {"a", "b", "d"}),
          Labelled(FALSE, <<"c", "a">>, {})}
    \* a title given in the front matter
    \cup {Retitled}

TagsOf(pr) == pr.tags

\* The document the discovery collaborator returns for node n.
LocalFile(n, pr, pinned) ==
    [absoluteFilePath |-> PathOf[n],
     pageTitle |-> IF pr.title = "own" THEN TitleOf[n] ELSE pr.title,
     contentType |-> pr.ctype,
     pageId |-> pinned,
     dontChangeParentPageId |-> pr.dc,
     tags |-> TagsOf(pr),
     contents |-> LocalBody(n, pr.rich)]

Range(s) == {s[i] : i \in DOMAIN s}

AbsentPage ==
    [exists |-> FALSE, title |-> "", type |-> "page", parent |-> NoPage,
     version |-> 0, by |-> Me, body |-> EmptyDoc, labels |-> {}, att |-> "none"]

TreePage(title, parent) ==
    [exists |-> TRUE, title |-> title, type |-> "page", parent |-> parent,
     version |-> 1, by |-> Other, body |-> EmptyDoc, labels |-> {}, att |-> "none"]

\* The candidate page of node n as the scenario describes it.
CandPage(n, pr) ==
    IF pr.rk = "absent" THEN AbsentPage
    ELSE [exists |-> TRUE,
          title |-> IF pr.rsame \/ pr.pin = "none" THEN TitleOf[n] ELSE OtherTitle,
          type |-> pr.rtype,
          parent |-> IF pr.rtype = "blogpost" THEN NoPage
                     ELSE IF pr.rk = "in" THEN TopPage ELSE HomePage,
          version |-> 3,
          by |-> pr.rby,
          body |-> IF pr.rsame THEN Reordered(Published(LocalBody(n, pr.rich)))
                   ELSE OtherBody,
          labels |-> pr.rlabels,
          att |-> IF ~pr.rich THEN "none"
                  ELSE IF pr.rsame THEN AssetHash ELSE StaleHash]

PinOf(n, pr) ==
    IF pr.pin = "own" THEN CandId[n]
    ELSE IF pr.pin = "first" THEN CandId[1]
    ELSE IF pr.pin = "gone" THEN GoneId ELSE NoPage

\* The ancestors the remote reports for a page: the full chain, from the
\* root of the space down to the page's parent.
RECURSIVE AncestorsFrom(_, _, _)
AncestorsFrom(rem, p, fuel) ==
    IF fuel = 0 \/ p \notin DOMAIN rem \/ rem[p].parent = NoPage THEN <<>>
    ELSE Append(AncestorsFrom(rem, rem[p].parent, fuel - 1), [id |-> rem[p].parent])

Ancestors(rem, p) == AncestorsFrom(rem, p, Cardinality(PageIds))

\* The descendant set of the top page.
InTree(rem, p) == \E i \in DOMAIN Ancestors(rem, p) : Ancestors(rem, p)[i].id = TopPage

\* ------------------------------------------------------------------ state
VARIABLES
    prof,     \* the scenario of each node (never changes)
    tree,     \* the local tree: the parent of each node (never changes)
    topParent,\* where the top page sits on the remote (never changes)
    remote,   \* the remote pages
    meta,     \* the metadata store of each source file (publish, pageId)
    pub,      \* the Publisher: position in publish(), myAccountId, run, filter
    files,    \* the documents discovered by the current run
    rnode,    \* the resolver task of each node
    unit,     \* the publish task of each node
    env,      \* faults and edits the environment has made
    hist,     \* calls issued on each page, updates accepted, pages written
    up,       \* the attachment deduplicator exercised on one page
    lt,       \* the local tree builder exercised on one list of files
    pl,       \* the processing pipeline exercised on one Publisher
    fn        \* the pure functions applied to drawn inputs

vars == <<prof, tree, topParent, remote, meta, pub, files, rnode, unit, env, hist,
          up, lt, pl, fn>>

\* The deduplicator and the tree builder when they are not exercised.
NoUploads == [pc |-> "off"]
NoTree == [pc |-> "off"]

Ops == {"create", "update", "upload", "remove", "add", "getAttachments", "getLabels"}
WriteOps == {"create", "update", "upload", "remove", "add"}

NoDetails ==
    [id |-> NoPage, version |-> 0, lastUpdatedBy |-> "", existingAdf |-> EmptyDoc,
     pageTitle |-> "", ancestors |-> <<>>, contentType |-> "page"]

IdleNode ==
    [pc |-> "idle", parentPageId |-> NoPage, via |-> "", details |-> NoDetails,
     reason |-> ""]

NoResult == [contentResult |-> "same", imageResult |-> "same", labelResult |-> "same"]

IdleUnit ==
    [pc |-> "idle", pageId |-> NoPage, ancestors |-> <<>>, version |-> 0,
     lastUpdatedBy |-> "", existingPageData |-> [adfContent |-> EmptyDoc, pageTitle |-> "",
                                                 ancestors |-> <<>>, contentType |-> "page"],
     currentAttachments |-> "none", imageStatus |-> "none", adfToUpload |-> EmptyDoc,
     updateContentDetails |-> "none", currentLabels |-> <<>>, next |-> 0,
     result |-> NoResult, reason |-> ""]

EmptyHist ==
    [calls |-> [p \in PageIds |-> [o \in Ops |-> 0]],
     served |-> [p \in PageIds |-> {}],
     accepted |-> {},
     outside |-> {},
     removed |-> [p \in PageIds |-> <<>>],
     added |-> [p \in PageIds |-> <<>>],
     runCalls |-> {},
     marked |-> [n \in Nodes |-> <<>>],
     failedAt |-> [n \in Nodes |-> "none"]]

InitRun ==
    /\ remote = [p \in PageIds |->
                    IF p = HomePage THEN TreePage("Home", NoPage)
                    ELSE IF p = TopPage THEN TreePage("Top", topParent)
                    ELSE IF \E n \in Nodes : p = CandId[n]
                         THEN CandPage(CHOOSE n \in Nodes : p = CandId[n],
                                       prof[CHOOSE n \in Nodes : p = CandId[n]])
                    ELSE AbsentPage]
    /\ meta = [n \in Nodes |-> [publish |-> "unset", pageId |-> PinOf(n, prof[n])]]
    /\ pub = [pc |-> "idle", myAccountId |-> "", run |-> 0, filter |-> "",
              units |-> <<>>, results |-> <<>>, rerun |-> FALSE,
              identityCalls |-> 0, identityFetches |-> 0]
    /\ files = [n \in Nodes |-> LocalFile(n, prof[n], NoPage)]
    /\ rnode = [n \in Nodes |-> IdleNode]
    /\ unit = [n \in Nodes |-> IdleUnit]
    /\ env = [faults |-> 0, edits |-> 0]
    /\ hist = EmptyHist

Init ==
    /\ prof \in [Nodes -> Profiles]
    /\ tree \in Trees
    /\ topParent \in {NoPage, HomePage}
    /\ InitRun
    /\ up = NoUploads
    /\ lt = NoTree
    /\ pl = [pc |-> "off"]
    /\ fn = [pc |-> "off"]

\* Two documents of different titles, the second pinned to the page of the
\* first.
PinnedToFirst == [Prof("page", "none", FALSE, FALSE, "absent", "page", Me, FALSE) EXCEPT
                     !.pin = "first"]

InitSamePage ==
    /\ prof \in {pr \in [Nodes -> Profiles \cup {PinnedToFirst}] : pr[2] = PinnedToFirst}
    /\ tree \in Trees
    /\ topParent \in {NoPage, HomePage}
    /\ InitRun
    /\ up = NoUploads
    /\ lt = NoTree
    /\ pl = [pc |-> "off"]
    /\ fn = [pc |-> "off"]

\* -------------------------------------------------------- remote content
Issue(h, p, op) == [h EXCEPT !.calls[p][op] = @ + 1]

\* A write is served on page p: remember it, and remember the pages written
\* while they were outside the descendant set of the top page.
Wrote(h, rem, p, op) ==
    [h EXCEPT !.served[p] = @ \cup {op},
              !.outside = IF InTree(rem, p) THEN @ ELSE @ \cup {p}]

\* What getContentById / getContent / createContent return for page p,
\* expanded with version, body and ancestors.
PageDetails(rem, p) ==
    [id |-> p, version |-> rem[p].version, lastUpdatedBy |-> rem[p].by,
     existingAdf |-> rem[p].body, pageTitle |-> rem[p].title,
     ancestors |-> Ancestors(rem, p), contentType |-> rem[p].type]

\* A search that never finds a page.
SearchResultsNone(rem, type, title) == {}

\* Search by content type and title within the space.
SearchResults(rem, type, title) ==
    {p \in PageIds : rem[p].exists /\ rem[p].type = type /\ rem[p].title = title}

\* The blank page createContent stores: ancestored under parentPageId when
\* the content type is page, authored by the acting identity.
CreatedPage(file, parentPageId) ==
    [exists |-> TRUE, title |-> file.pageTitle, type |-> file.contentType,
     parent |-> IF file.contentType = "page" THEN parentPageId ELSE NoPage,
     version |-> 1, by |-> Me, body |-> blankPageAdf, labels |-> {}, att |-> "none"]

\* ------------------------------------------------------ Publisher.publish
Filters == {""} \cup {PathOf[n] : n \in Nodes}

\* No identity is ever taken as cached.
IdentityNeverCached(myAccountId) == FALSE

\* !this.myAccountId is false: the acting identity is cached.
IdentityCached(myAccountId) == myAccountId # ""

\* publish(publishFilter): settings are loaded; the acting identity is
\* fetched unless it is cached.
publish ==
    /\ pub.pc = "idle"
    /\ pub.run = 0
    /\ \E f \in Filters :
          pub' = [pub EXCEPT !.pc = IF IdentityCached(pub.myAccountId) THEN "getParentPage"
                                    ELSE "getCurrentUser",
                             !.run = @ + 1, !.filter = f]
    /\ UNCHANGED <<pl, fn, up, lt, prof, tree, topParent, remote, meta, files, rnode, unit, env, hist>>

getCurrentUserReturn ==
    /\ pub.pc = "getCurrentUser"
    /\ pub' = [pub EXCEPT !.pc = "getParentPage", !.myAccountId = Me,
                          !.identityCalls = @ + 1, !.identityFetches = @ + 1]
    /\ hist' = [hist EXCEPT !.runCalls = @ \cup {"users.getCurrentUser"}]
    /\ UNCHANGED <<pl, fn, up, lt, prof, tree, topParent, remote, meta, files, rnode, unit, env>>

\* getCurrentUser rejects: publish() rejects with nothing cached.
getCurrentUserFails ==
    /\ pub.pc = "getCurrentUser"
    /\ pub' = [pub EXCEPT !.pc = "rejected", !.identityCalls = @ + 1]
    /\ hist' = [hist EXCEPT !.runCalls = @ \cup {"users.getCurrentUser"}]
    /\ UNCHANGED <<pl, fn, up, lt, prof, tree, topParent, remote, meta, files, rnode, unit, env>>

\* The configured parent page is fetched; it has a space.
getParentPageReturn ==
    /\ pub.pc = "getParentPage"
    /\ pub' = [pub EXCEPT !.pc = "getMarkdownFilesToUpload"]
    /\ hist' = [hist EXCEPT !.runCalls = @ \cup {"content.getContentById"}]
    /\ UNCHANGED <<pl, fn, up, lt, prof, tree, topParent, remote, meta, files, rnode, unit, env>>

\* A resolution that starts every node under the top page.
StartNodeUnderTop(file, parentPageId) ==
    [IdleNode EXCEPT !.pc = IF file.pageId # NoPage THEN "getContentById" ELSE "getContent",
                     !.parentPageId = TopPage]

\* ----------------------------------------- createFileStructureInConfluence
\* ensurePageExists starts with a fetch by id when the document pins one,
\* with a search by title otherwise.
StartNode(file, parentPageId) ==
    [IdleNode EXCEPT !.pc = IF file.pageId # NoPage THEN "getContentById" ELSE "getContent",
                     !.parentPageId = parentPageId]

\* A check that finds every list of titles unique.
checkUniquePageTitleOff(titles) == TRUE

checkUniquePageTitle(titles) == \A i, j \in DOMAIN titles : i # j => titles[i] # titles[j]

\* The page titles of the local tree, in the order checkUniquePageTitle
\* visits them.
TitlesOf(fs) == [i \in 1..Cardinality(Nodes) |-> fs[i].pageTitle]

\* A tree builder that returns whatever the titles are.
createLocalAdfTreeUnchecked(p, titles) == [p EXCEPT !.pc = "resolving"]

\* createLocalAdfTree throws, and publish() rejects, when a title repeats.
createLocalAdfTree(p, titles) ==
    IF checkUniquePageTitle(titles) THEN [p EXCEPT !.pc = "resolving"]
    ELSE [p EXCEPT !.pc = "rejected"]

\* The documents are discovered and the local tree is built; the root takes
\* the top page id without any lookup and its children start resolving.
getMarkdownFilesToUploadReturn ==
    /\ pub.pc = "getMarkdownFilesToUpload"
    /\ files' = [n \in Nodes |-> LocalFile(n, prof[n], meta[n].pageId)]
    /\ pub' = createLocalAdfTree(pub, TitlesOf(files'))
    /\ rnode' = [n \in Nodes |-> IF pub'.pc = "resolving" /\ tree[n] = Root
                                 THEN StartNode(files'[n], TopPage)
                                 ELSE IdleNode]
    /\ unit' = [n \in Nodes |-> IdleUnit]
    /\ UNCHANGED <<pl, fn, up, lt, prof, tree, topParent, remote, meta, env, hist>>

\* A rejected resolution rejects every Promise.all above it and publish().
Reject(p) == IF p.pc = "resolving" THEN [p EXCEPT !.pc = "rejected"] ELSE p

NodeThrows(n, rn, reason) ==
    /\ rnode' = [rn EXCEPT ![n].pc = "failed", ![n].reason = reason]
    /\ pub' = Reject(pub)

\* ensurePageExists, pinned id: the fetch returns the page, or 404.
getContentByIdReturn(n) ==
    /\ rnode[n].pc = "getContentById"
    /\ LET id == files[n].pageId IN
          IF id \in PageIds /\ remote[id].exists
             THEN rnode' = [rnode EXCEPT ![n].pc = "recordFound", ![n].via = "id",
                                         ![n].details = PageDetails(remote, id)]
             ELSE rnode' = [rnode EXCEPT ![n].pc = "recordNotFound"]
    /\ UNCHANGED <<pl, fn, up, lt, prof, tree, topParent, remote, meta, pub, files, unit, env, hist>>

\* The ancestor check left out.
CrossTreeUnchecked(file, found, topPageId) == FALSE

\* The title found lies outside the tree of the top page.
CrossTree(file, found, topPageId) ==
    /\ file.contentType = "page"
    /\ ~ \E i \in DOMAIN found.ancestors : found.ancestors[i].id = topPageId

\* ensurePageExists, no pinned id: the search returns its first match.
getContentReturn(n) ==
    /\ rnode[n].pc = "getContent"
    /\ LET results == SearchResults(remote, files[n].contentType, files[n].pageTitle) IN
          IF results # {}
             THEN LET currentPage == PageDetails(remote, CHOOSE p \in results : TRUE) IN
                  IF CrossTree(files[n], currentPage, TopPage)
                     THEN /\ NodeThrows(n, [rnode EXCEPT ![n].via = "title",
                                                          ![n].details = currentPage],
                                         "cross-tree-collision")
                          /\ hist' = hist
                     ELSE /\ rnode' = [rnode EXCEPT ![n].pc = "recordFound",
                                                    ![n].via = "title",
                                                    ![n].details = currentPage]
                          /\ UNCHANGED <<pub, hist>>
             ELSE /\ rnode' = [rnode EXCEPT ![n].pc = "createContent"]
                  /\ hist' = Issue(hist, NewId[n], "create")
                  /\ pub' = pub
    /\ UNCHANGED <<pl, fn, up, lt, prof, tree, topParent, remote, meta, files, unit, env>>

\* ensurePageExists, no match: the blank page is created.
createContentReturn(n) ==
    /\ rnode[n].pc = "createContent"
    /\ remote' = [remote EXCEPT ![NewId[n]] = CreatedPage(files[n], rnode[n].parentPageId)]
    /\ rnode' = [rnode EXCEPT ![n].pc = "recordFound", ![n].via = "create",
                              ![n].details = PageDetails(remote', NewId[n])]
    /\ hist' = Wrote(hist, remote', NewId[n], "create")
    /\ UNCHANGED <<pl, fn, up, lt, prof, tree, topParent, meta, pub, files, unit, env>>

\* A discovery recorded without the page id.
DiscoveryUnpinned(id) == [publish |-> "true", pageId |-> NoPage]

\* What a successful resolution writes back onto the source file.
Discovery(id) == [publish |-> "true", pageId |-> id]

\* What a 404 on the pinned id writes back onto the source file.
NotPublishable == [publish |-> "false", pageId |-> NoPage]

\* A catch that writes back whatever the failure is.
WriteBackOnAnyError(status) == TRUE

\* The catch of the pinned-id branch writes back on 404 only.
WriteBackOn404(status) == status = 404

\* adaptor.updateMarkdownValues returns: the discovery is on the source
\* file, the node is resolved and its children start with its id as their
\* parent; or, after a 404, the pin is cleared and the error is rethrown.
updateMarkdownValuesReturn(n) ==
    \/ /\ rnode[n].pc = "recordFound"
       /\ meta' = [meta EXCEPT ![n] = Discovery(rnode[n].details.id)]
       /\ hist' = [hist EXCEPT !.marked[n] = Append(@, Discovery(rnode[n].details.id))]
       /\ rnode' = [m \in Nodes |->
                       IF m = n THEN [rnode[n] EXCEPT !.pc = "done"]
                       ELSE IF tree[m] = n THEN StartNode(files[m], rnode[n].details.id)
                       ELSE rnode[m]]
       /\ pub' = pub
       /\ UNCHANGED <<pl, fn, up, lt, prof, tree, topParent, remote, files, unit, env>>
    \/ /\ rnode[n].pc = "recordNotFound"
       /\ WriteBackOn404(404)
       /\ meta' = [meta EXCEPT ![n] = NotPublishable]
       /\ hist' = [hist EXCEPT !.marked[n] = Append(@, NotPublishable)]
       /\ NodeThrows(n, rnode, "upstream-not-found")
       /\ UNCHANGED <<pl, fn, up, lt, prof, tree, topParent, remote, files, unit, env>>

\* A fetch, search or create call fails with a transport error; the catch
\* around the fetch by pinned id rethrows it.
resolverCallFails(n) ==
    /\ rnode[n].pc \in {"getContentById", "getContent", "createContent"}
    /\ env.faults < MaxFaults
    /\ env' = [env EXCEPT !.faults = @ + 1]
    /\ NodeThrows(n, rnode, "transport")
    /\ IF rnode[n].pc = "getContentById" /\ WriteBackOn404(500)
          THEN /\ meta' = [meta EXCEPT ![n] = NotPublishable]
               /\ hist' = [hist EXCEPT !.marked[n] = Append(@, NotPublishable)]
          ELSE UNCHANGED <<meta, hist>>
    /\ UNCHANGED <<pl, fn, up, lt, prof, tree, topParent, remote, files, unit>>

\* -------------------------------------------------------------- flattenTree
\* The children taken last first.
ChildSeqReversed(node) == SelectSeq(<<2, 1>>, LAMBDA c : tree[c] = node)

ChildSeq(node) == SelectSeq(<<1, 2>>, LAMBDA c : tree[c] = node)

\* Pre-order; a node is a unit when it has ancestors, so the root is not;
\* each child is handed its ancestors followed by this node's page id.
RECURSIVE flattenTree(_, _, _)
RECURSIVE flattenChildren(_, _, _)
flattenTree(rn, node, ancestors) ==
    LET pageId == IF node = Root THEN TopPage ELSE rn[node].details.id
        nodes == IF Len(ancestors) > 0
                    THEN <<[node |-> node, ancestors |-> ancestors]>> ELSE <<>>
    IN nodes \o flattenChildren(rn, ChildSeq(node), Append(ancestors, pageId))
flattenChildren(rn, children, ancestors) ==
    IF children = <<>> THEN <<>>
    ELSE flattenTree(rn, Head(children), ancestors)
            \o flattenChildren(rn, Tail(children), ancestors)

\* ------------------------------------------- Publisher.updatePageContent
OpOfPc ==
    [pc \in {"getAttachments", "createOrUpdateAttachments", "updateContent",
             "getLabelsForContent", "removeLabel", "addLabelsToContent"} |->
        CASE pc = "getAttachments" -> "getAttachments"
          [] pc = "createOrUpdateAttachments" -> "upload"
          [] pc = "updateContent" -> "update"
          [] pc = "getLabelsForContent" -> "getLabels"
          [] pc = "removeLabel" -> "remove"
          [] pc = "addLabelsToContent" -> "add"]

IssueNext(h, u) == IF u.pc \in DOMAIN OpOfPc THEN Issue(h, u.pageId, OpOfPc[u.pc]) ELSE h


\* publishFile without its catch: the error leaves the unit unhandled.
publishFileRethrow(u, reason) == [u EXCEPT !.pc = "thrown"]

\* publishFile catches what updatePageContent throws and returns the reason.
publishFileCatch(u, reason) == [u EXCEPT !.pc = "failed", !.reason = reason]

\* The identity check left out.
LastUpdatedByAnotherUnchecked(lastUpdatedBy, myAccountId) == FALSE

\* The last editor of the snapshot is not the acting identity.
LastUpdatedByAnother(lastUpdatedBy, myAccountId) == lastUpdatedBy # myAccountId

\* The content-type check left out.
ContentTypeUnchecked(existingType, localType) == FALSE

\* The snapshot's content type is not the document's.
ContentTypeDiffers(existingType, localType) == existingType # localType

\* A unit that asks for the labels without reading the attachments.
StartUnitAtLabels(file, d, ancestors, myAccountId) ==
    [IdleUnit EXCEPT !.pc = "getLabelsForContent", !.pageId = d.id, !.version = d.version,
                     !.lastUpdatedBy = d.lastUpdatedBy]

\* updatePageContent up to its first await: the two checks, then the page's
\* attachments are requested.
StartUnit(file, d, ancestors, myAccountId) ==
    LET u == [IdleUnit EXCEPT
                 !.pageId = d.id, !.ancestors = ancestors, !.version = d.version,
                 !.lastUpdatedBy = d.lastUpdatedBy,
                 !.existingPageData = [adfContent |-> d.existingAdf,
                                       pageTitle |-> d.pageTitle,
                                       ancestors |-> d.ancestors,
                                       contentType |-> d.contentType]]
    IN IF LastUpdatedByAnother(d.lastUpdatedBy, myAccountId)
          THEN publishFileCatch(u, "identity-conflict")
       ELSE IF ContentTypeDiffers(d.contentType, file.contentType)
          THEN publishFileCatch(u, "content-type-conversion")
       ELSE [u EXCEPT !.pc = "getAttachments"]

\* The page details compared and sent: ancestors are left out for a blog
\* post and for a document that keeps its parent.
WithAncestors(file) == ~(file.contentType = "blogpost" \/ file.dontChangeParentPageId)

existingPageDetails(u, file) ==
    IF WithAncestors(file)
       THEN [title |-> u.existingPageData.pageTitle,
             type |-> u.existingPageData.contentType,
             ancestors |-> u.existingPageData.ancestors]
       ELSE [title |-> u.existingPageData.pageTitle,
             type |-> u.existingPageData.contentType]

newPageDetails(u, file) ==
    IF WithAncestors(file)
       THEN [title |-> file.pageTitle, type |-> file.contentType,
             ancestors |-> [i \in 1..Len(u.ancestors) |-> [id |-> u.ancestors[i]]]]
       ELSE [title |-> file.pageTitle, type |-> file.contentType]

\* An update that skips a version number.
NextVersionSkips(pageVersionNumber) == pageVersionNumber + 2

\* The version number an update carries.
NextVersion(pageVersionNumber) == pageVersionNumber + 1

\* The image status reported once the pipeline has run.
ImageResult(imageStatus) == "updated"

\* A diff that looks at the body alone.
ContentDiffersBodyOnly(u, file, adfToUpload) ==
    ~adfEqual(u.existingPageData.adfContent, adfToUpload)

\* Whether the body or the page details differ from the snapshot.
ContentDiffers(u, file, adfToUpload) ==
    \/ ~adfEqual(u.existingPageData.adfContent, adfToUpload)
    \/ ~isEqual(existingPageDetails(u, file), newPageDetails(u, file))

\* From the end of the pipeline to the next await: the update is issued
\* when something differs, the labels are requested otherwise.
AfterPipeline(u, file, imageStatus, adfToUpload) ==
    LET differs == ContentDiffers(u, file, adfToUpload) IN
    [u EXCEPT !.imageStatus = imageStatus,
              !.adfToUpload = adfToUpload,
              !.result = [@ EXCEPT !.imageResult = ImageResult(imageStatus),
                                   !.contentResult = IF differs THEN "updated" ELSE "same"],
              !.updateContentDetails =
                  IF differs
                     THEN [details |-> newPageDetails(u, file), id |-> u.pageId,
                           version |-> NextVersion(u.version), body |-> adfToUpload]
                     ELSE @,
              !.pc = IF differs THEN "updateContent" ELSE "getLabelsForContent"]

\* The referenced-asset plugin's load: the local reference becomes the
\* attachment that holds the asset.
Load(adf, fileId) == [adf EXCEPT !.media = IF adf.media = "local:img" THEN fileId ELSE @]

\* uploadFile's dedup test: the index holds this key with this hash.
AlreadyAttached(currentAttachments, hash) == currentAttachments = hash

\* getAttachments returns: the index is built and the pipeline runs; an
\* asset already attached with the same hash is not uploaded again.
getAttachmentsReturn(n) ==
    /\ unit[n].pc = "getAttachments"
    /\ LET u == [unit[n] EXCEPT !.currentAttachments = remote[unit[n].pageId].att]
           adf == files[n].contents
           next == IF adf.media = "local:img"
                      THEN IF AlreadyAttached(u.currentAttachments, AssetHash)
                              THEN AfterPipeline(u, files[n], "existing", Load(adf, AssetFileId))
                              ELSE [u EXCEPT !.pc = "createOrUpdateAttachments"]
                      ELSE AfterPipeline(u, files[n], "none", adf)
       IN /\ unit' = [unit EXCEPT ![n] = next]
          /\ hist' = IssueNext(hist, next)
    /\ UNCHANGED <<pl, fn, up, lt, prof, tree, topParent, remote, meta, pub, files, rnode, env>>

\* The attachment is stored with its hash as comment; the pipeline ends.
createOrUpdateAttachmentsReturn(n) ==
    /\ unit[n].pc = "createOrUpdateAttachments"
    /\ LET next == AfterPipeline(unit[n], files[n], "uploaded",
                                 Load(files[n].contents, AssetFileId))
       IN /\ remote' = [remote EXCEPT ![unit[n].pageId].att = AssetHash]
          /\ unit' = [unit EXCEPT ![n] = next]
          /\ hist' = Wrote(IssueNext(hist, next), remote, unit[n].pageId, "upload")
    /\ UNCHANGED <<pl, fn, up, lt, prof, tree, topParent, meta, pub, files, rnode, env>>

\* The remote accepts an update only at its current version + 1.
Accepts(page, submitted) == submitted = page.version + 1

\* What an accepted update stores: body and page details together; the
\* last ancestor sent becomes the parent.
UpdatedPage(page, req) ==
    LET d == req.details IN
    [page EXCEPT !.title = d.title, !.type = d.type,
                 !.parent = IF "ancestors" \in DOMAIN d /\ Len(d.ancestors) > 0
                               THEN d.ancestors[Len(d.ancestors)].id ELSE @,
                 !.body = req.body,
                 !.version = req.version,
                 !.by = Me]

\* The update is served: accepted, and the labels are requested; or
\* refused for its version, and the unit fails.
updateContentReturn(n) ==
    /\ unit[n].pc = "updateContent"
    /\ LET u == unit[n]
           page == remote[u.pageId]
       IN IF Accepts(page, u.updateContentDetails.version)
             THEN LET next == [u EXCEPT !.pc = "getLabelsForContent"] IN
                  /\ remote' = [remote EXCEPT ![u.pageId] =
                                                UpdatedPage(page, u.updateContentDetails)]
                  /\ unit' = [unit EXCEPT ![n] = next]
                  /\ hist' = [Wrote(IssueNext(hist, next), remote, u.pageId, "update") EXCEPT
                                 !.accepted = @ \cup {[page |-> u.pageId, by |-> page.by]}]
             ELSE /\ unit' = [unit EXCEPT ![n] = publishFileCatch(u, "version-conflict")]
                  /\ hist' = [hist EXCEPT !.failedAt[n] = u.pc]
                  /\ remote' = remote
    /\ UNCHANGED <<pl, fn, up, lt, prof, tree, topParent, meta, pub, files, rnode, env>>

\* The labels the remote lists for a page, in its order.
LabelSeq(labels) == SelectSeq(<<"a", "b", "c", "d">>, LAMBDA l : l \in labels)

\* A removal loop that finds nothing to remove.
NextToRemoveNone(currentLabels, tags, i) == 0

\* The next remote label, after position i, that the document does not tag.
NextToRemove(currentLabels, tags, i) ==
    LET later == {j \in (i + 1)..Len(currentLabels) : currentLabels[j] \notin Range(tags)}
    IN IF later = {} THEN 0 ELSE CHOOSE j \in later : \A k \in later : j <= k

\* A label diff that finds nothing to add.
labelsToAddNone(currentLabels, tags) == <<>>

labelsToAdd(currentLabels, tags) ==
    SelectSeq(tags, LAMBDA t : t \notin Range(currentLabels))

\* The label loop from position i to the next await: the next removal, or
\* the single add call, or the result.
LabelStep(u, file, i) ==
    LET j == NextToRemove(u.currentLabels, file.tags, i) IN
    IF j # 0
       THEN [u EXCEPT !.pc = "removeLabel", !.next = j, !.result.labelResult = "updated"]
    ELSE IF labelsToAdd(u.currentLabels, file.tags) # <<>>
       THEN [u EXCEPT !.pc = "addLabelsToContent", !.result.labelResult = "updated"]
    ELSE [u EXCEPT !.pc = "done"]

getLabelsForContentReturn(n) ==
    /\ unit[n].pc = "getLabelsForContent"
    /\ LET u == [unit[n] EXCEPT !.currentLabels = LabelSeq(remote[unit[n].pageId].labels)]
           next == LabelStep(u, files[n], 0)
       IN /\ unit' = [unit EXCEPT ![n] = next]
          /\ hist' = IssueNext(hist, next)
    /\ UNCHANGED <<pl, fn, up, lt, prof, tree, topParent, remote, meta, pub, files, rnode, env>>

removeLabelReturn(n) ==
    /\ unit[n].pc = "removeLabel"
    /\ LET u == unit[n]
           next == LabelStep(u, files[n], u.next)
       IN /\ remote' = [remote EXCEPT ![u.pageId].labels = @ \ {u.currentLabels[u.next]}]
          /\ unit' = [unit EXCEPT ![n] = next]
          /\ hist' = [Wrote(IssueNext(hist, next), remote, u.pageId, "remove") EXCEPT
                         !.removed[u.pageId] = Append(@, u.currentLabels[u.next])]
    /\ UNCHANGED <<pl, fn, up, lt, prof, tree, topParent, meta, pub, files, rnode, env>>

addLabelsToContentReturn(n) ==
    /\ unit[n].pc = "addLabelsToContent"
    /\ LET u == unit[n] IN
          /\ remote' = [remote EXCEPT
                           ![u.pageId].labels = @ \cup Range(labelsToAdd(u.currentLabels,
                                                                         files[n].tags))]
          /\ unit' = [unit EXCEPT ![n].pc = "done"]
          /\ hist' = [Wrote(hist, remote, u.pageId, "add") EXCEPT
                         !.added[u.pageId] =
                            Append(@, labelsToAdd(u.currentLabels, files[n].tags))]
    /\ UNCHANGED <<pl, fn, up, lt, prof, tree, topParent, meta, pub, files, rnode, env>>

\* A call of the unit fails with a transport error: the unit fails.
unitCallFails(n) ==
    /\ unit[n].pc \in DOMAIN OpOfPc
    /\ env.faults < MaxFaults
    /\ env' = [env EXCEPT !.faults = @ + 1]
    /\ unit' = [unit EXCEPT ![n] = publishFileCatch(unit[n], "transport")]
    /\ hist' = [hist EXCEPT !.failedAt[n] = unit[n].pc]
    /\ UNCHANGED <<pl, fn, up, lt, prof, tree, topParent, remote, meta, pub, files, rnode>>

\* ------------------------------------------- publish(): fan-out and fan-in
\* The filter left out.
SelectedAll(pages, filter) == pages

Selected(pages, filter) ==
    IF filter # "" THEN SelectSeq(pages, LAMBDA e : PathOf[e.node] = filter) ELSE pages

\* Every node is resolved: the tree is flattened, filtered, and one
\* publishFile task is started per unit.
ensureAllFilesExistInConfluenceReturn ==
    /\ pub.pc = "resolving"
    /\ \A n \in Nodes : rnode[n].pc = "done"
    /\ LET pages == Selected(flattenTree(rnode, Root, <<>>), pub.filter)
           started == [n \in Nodes |->
                          IF \E i \in DOMAIN pages : pages[i].node = n
                             THEN StartUnit(files[n], rnode[n].details,
                                            pages[CHOOSE i \in DOMAIN pages :
                                                     pages[i].node = n].ancestors,
                                            pub.myAccountId)
                             ELSE IdleUnit]
       IN /\ unit' = started
          /\ pub' = [pub EXCEPT !.pc = "publishing",
                                !.units = [i \in DOMAIN pages |-> pages[i].node]]
          /\ hist' = [hist EXCEPT
                         !.calls = [p \in PageIds |->
                                      [@[p] EXCEPT !["getAttachments"] =
                                          @ + Cardinality({n \in Nodes :
                                                             /\ started[n].pc = "getAttachments"
                                                             /\ started[n].pageId = p})]],
                         !.failedAt = [n \in Nodes |->
                                         IF started[n].pc = "failed" THEN "check" ELSE @[n]]]
    /\ UNCHANGED <<pl, fn, up, lt, prof, tree, topParent, remote, meta, files, rnode, env>>

Settled(u) == u.pc \in {"done", "failed"}

\* One entry per unit: the success summary, or the reason.
ResultOf(n, u) ==
    IF u.pc = "done" THEN [node |-> n, successfulUploadResult |-> {u.result}, reason |-> ""]
    ELSE [node |-> n, successfulUploadResult |-> {}, reason |-> u.reason]

\* Promise.all over the publishFile tasks resolves.
publishReturn ==
    /\ pub.pc = "publishing"
    /\ \A i \in DOMAIN pub.units : Settled(unit[pub.units[i]])
    /\ pub' = [pub EXCEPT !.pc = "returned",
                          !.results = [i \in DOMAIN pub.units |->
                                          ResultOf(pub.units[i], unit[pub.units[i]])]]
    /\ UNCHANGED <<pl, fn, up, lt, prof, tree, topParent, remote, meta, files, rnode, unit, env, hist>>

\* -------------------------------------------------------- the other editor
\* Somebody else edits a page while the run is under way.
otherEdit(p) ==
    /\ pub.pc \in {"resolving", "publishing"}
    /\ p \notin {HomePage, TopPage}
    /\ remote[p].exists
    /\ env.edits < MaxEdits
    /\ env' = [env EXCEPT !.edits = @ + 1]
    /\ remote' = [remote EXCEPT ![p].body = OtherBody, ![p].version = @ + 1,
                                ![p].by = Other]
    /\ UNCHANGED <<pl, fn, up, lt, prof, tree, topParent, meta, pub, files, rnode, unit, hist>>

\* publish() is called again on the same Publisher, with the same filter,
\* once the previous call has returned or has rejected for want of the
\* acting identity.  rerun records that the previous call published every
\* unit of the tree and every unit succeeded.
publishAgain ==
    /\ \/ pub.pc = "returned"
       \/ pub.pc = "rejected" /\ pub.identityFetches = 0
    /\ pub.run < MaxRuns
    /\ pub' = [pub EXCEPT !.pc = IF IdentityCached(pub.myAccountId) THEN "getParentPage"
                                 ELSE "getCurrentUser",
                          !.run = @ + 1, !.units = <<>>, !.results = <<>>,
                          !.rerun = /\ pub.filter = ""
                                    /\ \A n \in Nodes : unit[n].pc = "done"]
    /\ hist' = EmptyHist
    /\ UNCHANGED <<pl, fn, up, lt, prof, tree, topParent, remote, meta, files, rnode, unit, env>>

Next ==
    \/ publish
    \/ getCurrentUserReturn
    \/ getParentPageReturn
    \/ getMarkdownFilesToUploadReturn
    \/ \E n \in Nodes : getContentByIdReturn(n)
    \/ \E n \in Nodes : getContentReturn(n)
    \/ \E n \in Nodes : createContentReturn(n)
    \/ \E n \in Nodes : updateMarkdownValuesReturn(n)
    \/ \E n \in Nodes : resolverCallFails(n)
    \/ ensureAllFilesExistInConfluenceReturn
    \/ \E n \in Nodes : getAttachmentsReturn(n)
    \/ \E n \in Nodes : createOrUpdateAttachmentsReturn(n)
    \/ \E n \in Nodes : updateContentReturn(n)
    \/ \E n \in Nodes : getLabelsForContentReturn(n)
    \/ \E n \in Nodes : removeLabelReturn(n)
    \/ \E n \in Nodes : addLabelsToContentReturn(n)
    \/ \E n \in Nodes : unitCallFails(n)
    \/ publishReturn
    \/ \E p \in PageIds : otherEdit(p)

Spec == Init /\ [][Next]_vars

\* The run on a tree whose second document is pinned to the first's page.
SpecSamePage == InitSamePage /\ [][Next]_vars

\* Runs repeated on a quiet remote: no transport error, no other editor.
NextRerun ==
    \/ publish
    \/ publishAgain
    \/ getCurrentUserReturn
    \/ getCurrentUserFails
    \/ getParentPageReturn
    \/ getMarkdownFilesToUploadReturn
    \/ \E n \in Nodes : getContentByIdReturn(n)
    \/ \E n \in Nodes : getContentReturn(n)
    \/ \E n \in Nodes : createContentReturn(n)
    \/ \E n \in Nodes : updateMarkdownValuesReturn(n)
    \/ ensureAllFilesExistInConfluenceReturn
    \/ \E n \in Nodes : getAttachmentsReturn(n)
    \/ \E n \in Nodes : createOrUpdateAttachmentsReturn(n)
    \/ \E n \in Nodes : updateContentReturn(n)
    \/ \E n \in Nodes : getLabelsForContentReturn(n)
    \/ \E n \in Nodes : removeLabelReturn(n)
    \/ \E n \in Nodes : addLabelsToContentReturn(n)
    \/ publishReturn

SpecRerun == Init /\ [][NextRerun]_vars

\* ------------------------------------------------------------ Attachments
\* uploadFile and uploadBuffer exercised on one page: publish units run one
\* after another, each builds its attachment index from the page's remote
\* attachments and makes upload calls against that index.

\* Publish units that run on the page, upload calls made in all, and changes
\* made to local files between units.
MaxUnits == 2
MaxUploads == 2
MaxAssetEdits == 1

AttPage == "p1"
Bytes == {"B1", "B2"}

\* A file name is a sequence of pieces: "%20" is an escaped blank, "%" an
\* escape that is cut short.
Names ==
    { <<"x/", "img">>, <<"y/", "img">>, <<"x/", "a", "%20", "b">>, <<"x/", "50", "%">> }

\* decodeURI: throws on a malformed escape, replaces the escapes otherwise.
Malformed(name) == \E i \in DOMAIN name : name[i] = "%"

decodeURI(name) == [i \in DOMAIN name |-> IF name[i] = "%20" THEN " " ELSE name[i]]

\* The local paths a name can resolve to.
Paths == Names \cup {decodeURI(name) : name \in {nm \in Names : ~Malformed(nm)}}

\* The file name charts are uploaded under from memory.
BufferNames == { <<"chart.png">> }

Md5(x) == <<"md5">> \o x

\* The upload key of a local file: the hash of its path, "-", its file name.
UploadKeyByName(filePath, filename) == <<"-">> \o filename

UploadKey(filePath, filename) == Md5(filePath) \o <<"-">> \o filename

\* adaptor.readBinary: the file at that path, or false.
readBinary(disk, path) ==
    IF path \in DOMAIN disk /\ disk[path] # "missing"
       THEN [found |-> TRUE, filename |-> Tail(path), filePath |-> path,
             contents |-> disk[path]]
       ELSE [found |-> FALSE, filename |-> <<>>, filePath |-> <<>>, contents |-> "missing"]

\* The collection an upload response names: contentId-<container id>.
Collection(pageId) == <<"contentId-", pageId>>

\* What the remote keeps for an attachment stored under a file name.
Stored(comment, fileId) ==
    [comment |-> comment, fileId |-> fileId, collectionName |-> Collection(AttPage)]

\* The attachment index of a unit, built from the page's attachments.
CurrentAttachmentsOf(store) ==
    [k \in DOMAIN store |-> [filehash |-> store[k].comment,
                             attachmentId |-> store[k].fileId,
                             collectionName |-> store[k].collectionName]]

\* The dedup test without the hash.
InCurrentAttachmentsByKey(currentAttachments, key, md5) == key \in DOMAIN currentAttachments

\* fileInCurrentAttachments?.filehash === currentFileMd5
InCurrentAttachments(currentAttachments, key, md5) ==
    /\ key \in DOMAIN currentAttachments
    /\ currentAttachments[key].filehash = md5

\* The local files and the page's attachments a behaviour starts from.
Disks ==
    { [p \in Paths |-> "missing"],
      [p \in Paths |-> "B1"],
      [p \in Paths |-> IF p[Len(p)] = "img" THEN "B1" ELSE "missing"],
      [p \in Paths |-> IF p = <<"x/", "a", " ", "b">> THEN "B2" ELSE "missing"] }

Stores ==
    { << >>,
      [k \in {UploadKey(<<"x/", "img">>, <<"img">>)} |-> Stored(Md5(<<"B1">>), 0)],
      [k \in {UploadKey(<<"x/", "img">>, <<"img">>)} |-> Stored(Md5(<<"B2">>), 0)],
      [k \in BufferNames |-> Stored(Md5(<<"B1">>), 0)] }

NoCall ==
    [fn |-> "", name |-> <<>>, reads |-> <<>>, filePath |-> <<>>, key |-> <<>>,
     hash |-> <<>>, unit |-> 0, indexed |-> FALSE, stale |-> FALSE,
     status |-> "", id |-> 0, collection |-> <<>>, called |-> FALSE]

InitAttachments ==
    /\ up \in {[pc |-> "idle", disk |-> d, store |-> s, currentAttachments |-> << >>,
                unit |-> 0, calls |-> 0, pending |-> NoCall, log |-> << >>,
                served |-> 0, edits |-> 0] : d \in Disks, s \in Stores}

\* updatePageContent builds the index from getAttachments: a unit starts.
buildCurrentAttachments ==
    /\ up.pc = "idle"
    /\ up.unit < MaxUnits
    /\ up' = [up EXCEPT !.pc = "ready", !.unit = @ + 1,
                        !.currentAttachments = CurrentAttachmentsOf(up.store)]
    /\ UNCHANGED <<pl, fn, lt, prof, tree, topParent, remote, meta, pub, files, rnode, unit, env,
                   hist>>

\* From the hash and key on: the entry is returned from the index, or the
\* upload call is issued.
DedupOrUpload(u, call) ==
    LET c == [call EXCEPT !.unit = u.unit,
                          !.indexed = InCurrentAttachments(u.currentAttachments,
                                                           call.key, call.hash),
                          !.stale = /\ call.key \in DOMAIN u.currentAttachments
                                    /\ u.currentAttachments[call.key].filehash # call.hash]
    IN IF InCurrentAttachments(u.currentAttachments, c.key, c.hash)
          THEN [u EXCEPT !.calls = @ + 1,
                         !.log = Append(@, [c EXCEPT
                                    !.status = "existing",
                                    !.id = u.currentAttachments[c.key].attachmentId,
                                    !.collection =
                                        u.currentAttachments[c.key].collectionName])]
          ELSE [u EXCEPT !.calls = @ + 1, !.pc = "createOrUpdateAttachments",
                         !.pending = [c EXCEPT !.called = TRUE]]

\* uploadFile(fileNameToUpload): the literal name is read, then the decoded
\* name if that found nothing; decodeURI throws on a malformed name, and the
\* unit ends with that error.
uploadFile(fileNameToUpload) ==
    /\ up.pc = "ready"
    /\ up.calls < MaxUploads
    /\ LET first == readBinary(up.disk, fileNameToUpload)
           call == [NoCall EXCEPT !.fn = "uploadFile", !.name = fileNameToUpload,
                                  !.unit = up.unit]
       IN IF first.found
             THEN up' = DedupOrUpload(up,
                           [call EXCEPT !.reads = <<fileNameToUpload>>,
                                        !.filePath = first.filePath,
                                        !.key = UploadKey(first.filePath, first.filename),
                                        !.hash = Md5(<<first.contents>>)])
          ELSE IF Malformed(fileNameToUpload)
             THEN up' = [up EXCEPT !.pc = "idle", !.calls = @ + 1,
                                   !.log = Append(@, [call EXCEPT
                                                         !.reads = <<fileNameToUpload>>,
                                                         !.status = "error"])]
          ELSE LET fileNameForUpload == decodeURI(fileNameToUpload)
                   testing == readBinary(up.disk, fileNameForUpload)
                   read2 == [call EXCEPT !.reads = <<fileNameToUpload, fileNameForUpload>>]
               IN IF testing.found
                     THEN up' = DedupOrUpload(up,
                                   [read2 EXCEPT
                                       !.filePath = testing.filePath,
                                       !.key = UploadKey(testing.filePath, testing.filename),
                                       !.hash = Md5(<<testing.contents>>)])
                     ELSE up' = [up EXCEPT !.calls = @ + 1,
                                           !.log = Append(@, [read2 EXCEPT !.status = "null"])]
    /\ UNCHANGED <<pl, fn, lt, prof, tree, topParent, remote, meta, pub, files, rnode, unit, env,
                   hist>>

\* uploadBuffer(uploadFilename, fileBuffer): the key is the caller's name.
uploadBuffer(uploadFilename, fileBuffer) ==
    /\ up.pc = "ready"
    /\ up.calls < MaxUploads
    /\ up' = DedupOrUpload(up, [NoCall EXCEPT !.fn = "uploadBuffer",
                                              !.name = uploadFilename,
                                              !.key = uploadFilename,
                                              !.hash = Md5(<<fileBuffer>>)])
    /\ UNCHANGED <<pl, fn, lt, prof, tree, topParent, remote, meta, pub, files, rnode, unit, env,
                   hist>>

\* createOrUpdateAttachments is served: the remote keeps the bytes under the
\* file name with the hash as comment, and answers with a file id.
attachmentStored ==
    /\ up.pc = "createOrUpdateAttachments"
    /\ LET fileId == up.served + 1 IN
       up' = [up EXCEPT !.pc = "ready", !.served = fileId, !.pending = NoCall,
                        !.store = [k \in DOMAIN up.store \cup {up.pending.key} |->
                                      IF k = up.pending.key
                                         THEN Stored(up.pending.hash, fileId)
                                         ELSE up.store[k]],
                        !.log = Append(@, [up.pending EXCEPT
                                              !.status = "uploaded", !.id = fileId,
                                              !.collection = Collection(AttPage)])]
    /\ UNCHANGED <<pl, fn, lt, prof, tree, topParent, remote, meta, pub, files, rnode, unit, env,
                   hist>>

\* The unit's pipeline has made its upload calls.
unitEnds ==
    /\ up.pc = "ready"
    /\ up' = [up EXCEPT !.pc = "idle"]
    /\ UNCHANGED <<pl, fn, lt, prof, tree, topParent, remote, meta, pub, files, rnode, unit, env,
                   hist>>

\* A local file gets other bytes between two units.
editAsset(path, bytes) ==
    /\ up.pc = "idle"
    /\ up.unit > 0
    /\ up.edits < MaxAssetEdits
    /\ up.disk[path] \notin {"missing", bytes}
    /\ up' = [up EXCEPT !.disk[path] = bytes, !.edits = @ + 1]
    /\ UNCHANGED <<pl, fn, lt, prof, tree, topParent, remote, meta, pub, files, rnode, unit, env,
                   hist>>

\* The publish run is parked in one fixed initial state.
Parked ==
    /\ prof = [n \in Nodes |-> Prof("page", "none", FALSE, FALSE, "absent", "page", Me, FALSE)]
    /\ tree = [n \in Nodes |-> Root]
    /\ topParent = NoPage
    /\ InitRun

InitAttach ==
    /\ Parked
    /\ InitAttachments
    /\ lt = NoTree
    /\ pl = [pc |-> "off"]
    /\ fn = [pc |-> "off"]

NextAttach ==
    \/ buildCurrentAttachments
    \/ \E name \in Names : uploadFile(name)
    \/ \E name \in BufferNames, bytes \in Bytes : uploadBuffer(name, bytes)
    \/ attachmentStored
    \/ unitEnds
    \/ \E path \in Paths, bytes \in Bytes : editAsset(path, bytes)

SpecAttach == InitAttach /\ [][NextAttach]_vars

\* -------------------------------------------------------------- TreeLocal
\* createFolderStructure applied to one list of discovered files.  A path is
\* the sequence of its parts (an absolute path starts with the empty part);
\* the tree is kept as a map from a node's place (the child names leading to
\* it from the root) to the node.

\* Files in the list handed to createFolderStructure.
MaxFiles == 3

FilePaths ==
    { <<"", "docs", "x.md">>,
      <<"", "docs", "a.md">>,
      <<"", "docs", "a", "index.md">>,
      <<"", "docs", "a", "a.md">>,
      <<"", "docs", "a", "x.md">>,
      <<"", "docs", "a", "Readme.md">>,
      <<"", "docs", "a", "a", "y.md">>,
      <<"", "docs", "b", "README.md">> }

\* path.parse(name).name: the name without its extension.
ParsedName(name) ==
    CASE name = "x.md" -> "x"
      [] name = "a.md" -> "a"
      [] name = "y.md" -> "y"
      [] name = "index.md" -> "index"
      [] name = "Readme.md" -> "Readme"
      [] name = "README.md" -> "README"
      [] OTHER -> name

\* The document convertMDtoADF returns for a discovered file; a file is
\* titled by its name.
AdfFileOf(path) ==
    [absoluteFilePath |-> path, fileName |-> path[Len(path)],
     pageTitle |-> <<ParsedName(path[Len(path)])>>, synthesized |-> FALSE]

\* The lists of files: every order of up to MaxFiles different files.
RECURSIVE FileLists(_)
FileLists(n) ==
    IF n = 0 THEN { << >> }
    ELSE FileLists(n - 1)
         \cup {Append(l, f) : l \in {k \in FileLists(n - 1) : Len(k) = n - 1},
                              f \in FilePaths}

Distinct(l) == \A i, j \in DOMAIN l : i # j => l[i] # l[j]

\* findCommonPath: the parts of the first path, cut at the first part that
\* differs in each of the others.
CommonParts(common, parts) ==
    LET differ == {i \in DOMAIN common : i > Len(parts) \/ parts[i] # common[i]}
    IN IF differ = {} THEN common
       ELSE SubSeq(common, 1, (CHOOSE i \in differ : \A k \in differ : i <= k) - 1)

RECURSIVE findCommonPath(_)
findCommonPath(paths) ==
    IF Len(paths) = 1 THEN paths[1]
    ELSE CommonParts(findCommonPath(SubSeq(paths, 1, Len(paths) - 1)), paths[Len(paths)])

\* path.relative(commonPath, file).split(sep): the parts after the common
\* path; the empty string splits into one empty part.
RelativeParts(commonPath, path) ==
    IF Len(path) = Len(commonPath) THEN <<"">>
    ELSE SubSeq(path, Len(commonPath) + 1, Len(path))

createTreeNode(name) == [name |-> name, children |-> << >>, file |-> << >>]

\* The map with node k set to node, k added when it is new.
WithNode(nodes, k, node) ==
    [key \in DOMAIN nodes \cup {k} |-> IF key = k THEN node ELSE nodes[key]]

\* addFileToTree: the file becomes a child of the folder its last part lies
\* in; the folders on the way are found by name, or created.
RECURSIVE addFileToTree(_, _, _, _)
addFileToTree(nodes, treeNode, file, relativePath) ==
    LET folderName == Head(relativePath)
        remainingPath == Tail(relativePath)
        child == Append(treeNode, folderName)
        pushed == [nodes[treeNode] EXCEPT !.children = Append(@, folderName)]
    IN IF remainingPath = << >>
          THEN WithNode(WithNode(nodes, treeNode, pushed), child,
                        [createTreeNode(<<folderName>>) EXCEPT !.file = <<file>>])
       ELSE IF \E i \in DOMAIN nodes[treeNode].children :
                   nodes[treeNode].children[i] = folderName
          THEN addFileToTree(nodes, child, file, remainingPath)
       ELSE addFileToTree(WithNode(WithNode(nodes, treeNode, pushed), child,
                                   createTreeNode(<<folderName>>)),
                          child, file, remainingPath)

\* Array.find: the first element that satisfies the test, 0 when none does.
FindFirst(hits) ==
    IF hits = {} THEN 0 ELSE CHOOSE i \in hits : \A k \in hits : i <= k

IndexNames == {"index", "README", "readme"}

\* An index lookup that ignores the case of the name.
IsIndexNameAnyCase(name) == name \in IndexNames \cup {"Readme", "Index", "INDEX"}

IsIndexName(name) == name \in IndexNames

\* A choice that looks for index, README or readme first.
indexFileIndexFirst(node) ==
    LET index == FindFirst({i \in DOMAIN node.children : IsIndexName(ParsedName(node.children[i]))})
    IN IF index # 0 THEN index
       ELSE FindFirst({i \in DOMAIN node.children : <<ParsedName(node.children[i])>> = node.name})

\* processNode's choice for a folder: the first child named as the folder,
\* else the first child named index, README or readme; 0 when there is none.
indexFile(node) ==
    LET same == FindFirst({i \in DOMAIN node.children : <<ParsedName(node.children[i])>> = node.name})
    IN IF same # 0 THEN same
       ELSE FindFirst({i \in DOMAIN node.children : IsIndexName(ParsedName(node.children[i]))})

\* The placeholder document of a folder.
FolderFile(node) ==
    [absoluteFilePath |-> node.name, fileName |-> node.name[Len(node.name)],
     pageTitle |-> node.name, synthesized |-> TRUE]

\* The children of a node without the one at position i.
Without(children, i) ==
    [j \in 1..(Len(children) - 1) |-> IF j < i THEN children[j] ELSE children[j + 1]]

\* processNode on the node at place k, then on its children: a node without
\* a file takes the file of the chosen child, which leaves the children, or a
\* placeholder when there is no such child or the child has no file.
RECURSIVE processNode(_, _)
RECURSIVE processChildren(_, _, _)
processNode(nodes, k) ==
    LET node == nodes[k]
        i == indexFile(node)
        chosen == IF i = 0 THEN k ELSE Append(k, node.children[i])
        takes == i # 0 /\ nodes[chosen].file # << >>
        done == IF node.file # << >> THEN nodes
                ELSE IF takes
                   THEN [key \in DOMAIN nodes \ {chosen} |->
                            IF key = k
                               THEN [node EXCEPT !.file = nodes[chosen].file,
                                                 !.children = Without(@, i)]
                               ELSE nodes[key]]
                ELSE [nodes EXCEPT ![k].file = <<FolderFile(node)>>]
    IN processChildren(done, k, done[k].children)
processChildren(nodes, k, children) ==
    IF children = << >> THEN nodes
    ELSE processChildren(processNode(nodes, Append(k, Head(children))), k, Tail(children))

\* checkUniquePageTitle: the titles in the order of the walk (a node, then
\* its children), and whether one of them was seen before.
RECURSIVE PageTitles(_, _)
RECURSIVE ChildTitles(_, _, _)
PageTitles(nodes, k) ==
    <<IF nodes[k].file = << >> THEN << >> ELSE nodes[k].file[1].pageTitle>>
       \o ChildTitles(nodes, k, nodes[k].children)
ChildTitles(nodes, k, children) ==
    IF children = << >> THEN << >>
    ELSE PageTitles(nodes, Append(k, Head(children))) \o ChildTitles(nodes, k, Tail(children))

InitTree ==
    lt \in {[pc |-> "idle", markdownFiles |-> l, commonPath |-> << >>, next |-> 1,
             nodes |-> << >>, before |-> << >>] :
               l \in {k \in FileLists(MaxFiles) : k # << >> /\ Distinct(k)}}

\* createFolderStructure: the common path and the root node.
createFolderStructure ==
    /\ lt.pc = "idle"
    /\ LET commonPath == findCommonPath(lt.markdownFiles) IN
       lt' = [lt EXCEPT !.pc = "addFileToTree", !.commonPath = commonPath,
                        !.nodes = [k \in {<< >>} |-> createTreeNode(commonPath)]]
    /\ UNCHANGED <<pl, fn, up, prof, tree, topParent, remote, meta, pub, files, rnode, unit, env,
                   hist>>

\* markdownFiles.forEach: the next file is inserted.
addFileToTreeReturn ==
    /\ lt.pc = "addFileToTree"
    /\ lt.next <= Len(lt.markdownFiles)
    /\ LET path == lt.markdownFiles[lt.next] IN
       lt' = [lt EXCEPT !.next = @ + 1,
                        !.nodes = addFileToTree(lt.nodes, << >>, AdfFileOf(path),
                                                RelativeParts(lt.commonPath, path))]
    /\ UNCHANGED <<pl, fn, up, prof, tree, topParent, remote, meta, pub, files, rnode, unit, env,
                   hist>>

\* processNode(commonPath, rootNode): the folder pass over the whole tree.
processNodeReturn ==
    /\ lt.pc = "addFileToTree"
    /\ lt.next > Len(lt.markdownFiles)
    /\ lt' = [lt EXCEPT !.pc = "checkUniquePageTitle", !.before = lt.nodes,
                        !.nodes = processNode(lt.nodes, << >>)]
    /\ UNCHANGED <<pl, fn, up, prof, tree, topParent, remote, meta, pub, files, rnode, unit, env,
                   hist>>

\* checkUniquePageTitle(rootNode): the tree is returned, or the uniqueness
\* error is thrown.
checkUniquePageTitleReturn ==
    /\ lt.pc = "checkUniquePageTitle"
    /\ lt' = [lt EXCEPT !.pc = IF checkUniquePageTitle(PageTitles(lt.nodes, << >>))
                                  THEN "returned" ELSE "thrown"]
    /\ UNCHANGED <<pl, fn, up, prof, tree, topParent, remote, meta, pub, files, rnode, unit, env,
                   hist>>

InitLocalTree ==
    /\ Parked
    /\ up = NoUploads
    /\ pl = [pc |-> "off"]
    /\ fn = [pc |-> "off"]
    /\ InitTree

NextTree ==
    \/ createFolderStructure
    \/ addFileToTreeReturn
    \/ processNodeReturn
    \/ checkUniquePageTitleReturn

SpecTree == InitLocalTree /\ [][NextTree]_vars

\* ------------------------------------------------ the processing pipeline
\* A Publisher is constructed with the caller's plugins and runs the
\* pipeline of its publish units one after another.

\* Plugins the caller supplies, and pipelines one Publisher runs.
MaxPlugins == 2
MaxPipelines == 2

ImageUploaderPlugin == "ImageUploaderPlugin"
AlwaysADFProcessingPlugins == <<ImageUploaderPlugin>>

\* The plugin lists a caller can supply.
CallerPlugins ==
    {<<>>} \cup {<<a>> : a \in {"mermaid", "custom"}}
           \cup {<<a, b>> : a \in {"mermaid", "custom"}, b \in {"mermaid", "custom"}}

\* A list that leaves the built-in plugins out.
concatNone(a, b) == a

\* Array.prototype.concat: a new array, the elements of a then those of b.
concat(a, b) == a \o b

\* What the plugins of this model do: extract tags the body it was given,
\* transform tags what was extracted, load appends the plugin's mark and the
\* number of transformed items to the body.
Extract(plugin, adf) == <<"extracted", plugin>> \o adf
Transform(items) == <<"transformed">> \o items
LoadInto(plugin, adf, transformedItems) ==
    adf \o <<plugin>> \o [i \in 1..(Len(transformedItems) - 3) |-> "item"]

\* A Promise.all that resolves as soon as one transform has.
PromiseAllResolvesOnFirst(results) == \E i \in DOMAIN results : results[i] = "ok"

\* Promise.all resolves when every promise has.
PromiseAllResolves(results) == \A i \in DOMAIN results : results[i] = "ok"

PromiseAllRejects(results) == \E i \in DOMAIN results : results[i] = "failed"

InitPipeline ==
    pl \in {[pc |-> "new", callerPlugins |-> c, given |-> <<>>,
             adfProcessingPlugins |-> <<>>, runs |-> 0, adf |-> <<>>,
             extractedData |-> <<>>, results |-> <<>>, transformedData |-> <<>>,
             finalADF |-> <<>>, loads |-> <<>>, used |-> <<>>] : c \in CallerPlugins}

\* new Publisher(adaptor, settingsLoader, confluenceClient, adfProcessingPlugins)
newPublisher ==
    /\ pl.pc = "new"
    /\ pl' = [pl EXCEPT !.pc = "idle", !.given = pl.callerPlugins,
                        !.adfProcessingPlugins =
                            concat(pl.callerPlugins, AlwaysADFProcessingPlugins)]
    /\ UNCHANGED <<fn, up, lt, prof, tree, topParent, remote, meta, pub, files, rnode, unit,
                   env, hist>>

\* The caller changes its own array after the construction.
callerChangesPlugins(plugins) ==
    /\ pl.pc \notin {"off", "new"}
    /\ pl.callerPlugins = pl.given
    /\ plugins # pl.callerPlugins
    /\ pl' = [pl EXCEPT !.callerPlugins = plugins]
    /\ UNCHANGED <<fn, up, lt, prof, tree, topParent, remote, meta, pub, files, rnode, unit,
                   env, hist>>

\* executeADFProcessingPipeline(this.adfProcessingPlugins, adf, ...) is
\* called for a unit; no transform of an earlier unit is pending.
executeADFProcessingPipeline(adf) ==
    /\ pl.pc \in {"idle", "returned", "rejected"}
    /\ pl.runs < MaxPipelines
    /\ \A i \in DOMAIN pl.results : pl.results[i] # "pending"
    /\ pl' = [pl EXCEPT !.pc = "extract", !.runs = @ + 1, !.adf = adf,
                        !.extractedData = <<>>, !.results = <<>>,
                        !.transformedData = <<>>, !.finalADF = <<>>, !.loads = <<>>,
                        !.used = Append(@, pl.adfProcessingPlugins)]
    /\ UNCHANGED <<fn, up, lt, prof, tree, topParent, remote, meta, pub, files, rnode, unit,
                   env, hist>>

\* plugins.map(extract): the next plugin's extract returns, or throws.
extractReturn(ok) ==
    /\ pl.pc = "extract"
    /\ Len(pl.extractedData) < Len(pl.adfProcessingPlugins)
    /\ LET plugin == pl.adfProcessingPlugins[Len(pl.extractedData) + 1] IN
       pl' = IF ok THEN [pl EXCEPT !.extractedData = Append(@, Extract(plugin, pl.adf))]
             ELSE [pl EXCEPT !.pc = "rejected"]
    /\ UNCHANGED <<fn, up, lt, prof, tree, topParent, remote, meta, pub, files, rnode, unit,
                   env, hist>>

\* plugins.map(transform): every transform is started.
transformsStart ==
    /\ pl.pc = "extract"
    /\ Len(pl.extractedData) = Len(pl.adfProcessingPlugins)
    /\ pl' = [pl EXCEPT !.pc = "transform",
                        !.results = [i \in DOMAIN pl.adfProcessingPlugins |-> "pending"],
                        !.transformedData = [i \in DOMAIN pl.adfProcessingPlugins |-> <<>>]]
    /\ UNCHANGED <<fn, up, lt, prof, tree, topParent, remote, meta, pub, files, rnode, unit,
                   env, hist>>

\* One transform settles, in any order; it may do so after Promise.all has
\* rejected.
transformSettles(i, ok) ==
    /\ pl.pc \in {"transform", "rejected"}
    /\ i \in DOMAIN pl.results
    /\ pl.results[i] = "pending"
    /\ pl' = IF ok THEN [pl EXCEPT !.results[i] = "ok",
                                   !.transformedData[i] = Transform(pl.extractedData[i])]
             ELSE [pl EXCEPT !.results[i] = "failed"]
    /\ UNCHANGED <<fn, up, lt, prof, tree, topParent, remote, meta, pub, files, rnode, unit,
                   env, hist>>

\* await Promise.all(...) settles: the reduce over load starts, or the
\* pipeline rejects.
promiseAllSettles ==
    /\ pl.pc = "transform"
    /\ \/ /\ PromiseAllRejects(pl.results)
          /\ pl' = [pl EXCEPT !.pc = "rejected"]
       \/ /\ ~PromiseAllRejects(pl.results)
          /\ PromiseAllResolves(pl.results)
          /\ pl' = [pl EXCEPT !.pc = "load", !.finalADF = pl.adf]
    /\ UNCHANGED <<fn, up, lt, prof, tree, topParent, remote, meta, pub, files, rnode, unit,
                   env, hist>>

\* plugins.reduce(load): the next plugin's load returns; after the last one
\* the pipeline returns the body.
loadReturn ==
    /\ pl.pc = "load"
    /\ LET index == Len(pl.loads) + 1
           plugin == pl.adfProcessingPlugins[index]
       IN pl' = [pl EXCEPT
                    !.pc = IF index = Len(pl.adfProcessingPlugins) THEN "returned" ELSE @,
                    !.finalADF = LoadInto(plugin, @, pl.transformedData[index]),
                    !.loads = Append(@, [plugin |-> plugin, accADF |-> pl.finalADF,
                                         transformedItems |-> pl.transformedData[index],
                                         results |-> pl.results])]
    /\ UNCHANGED <<fn, up, lt, prof, tree, topParent, remote, meta, pub, files, rnode, unit,
                   env, hist>>

Bodies == {<<"p">>, <<"p", "img">>}

InitPipelines ==
    /\ Parked
    /\ up = NoUploads
    /\ lt = NoTree
    /\ fn = [pc |-> "off"]
    /\ InitPipeline

NextPipeline ==
    \/ newPublisher
    \/ \E plugins \in CallerPlugins : callerChangesPlugins(plugins)
    \/ \E adf \in Bodies : executeADFProcessingPipeline(adf)
    \/ \E ok \in BOOLEAN : extractReturn(ok)
    \/ transformsStart
    \/ \E i \in 1..(MaxPlugins + 1), ok \in BOOLEAN : transformSettles(i, ok)
    \/ promiseAllSettles
    \/ loadReturn

SpecPipeline == InitPipelines /\ [][NextPipeline]_vars

\* ------------------------------------------------------- settings layering
\* A settings value carries its JavaScript type; a partial settings object
\* is a function from the fields it holds to their values.
Str(s) == [t |-> "string", v |-> s]
Bool(b) == [t |-> "boolean", v |-> b]
Num(n) == [t |-> "number", v |-> n]
NoSettings == [k \in {} |-> Str("")]

\* DEFAULT_SETTINGS: confluenceSpaceKey has no default.
DEFAULT_SETTINGS ==
    [k \in {"confluenceParentId", "firstHeadingPageTitle"} |->
        IF k = "confluenceParentId" THEN Str("") ELSE Bool("false")]

TypeOfDefault(k) == IF k \in DOMAIN DEFAULT_SETTINGS THEN DEFAULT_SETTINGS[k].t ELSE "undefined"

\* ConfigFileSettingsLoader.loadPartial: the keys of DEFAULT_SETTINGS that
\* the parsed file holds.
ConfigFileLoadPartial(config) ==
    [k \in DOMAIN DEFAULT_SETTINGS \cap DOMAIN config |-> config[k]]

\* EnvironmentVariableSettingsLoader.loadPartial.  The source file
\* declares the class twice; revision 1 always sets firstHeadingPageTitle,
\* revision 2 sets it only when the variable holds a boolean word.
EnvLoadPartial(revision, processEnv) ==
    LET strings == [k \in {f \in {"confluenceParentId"} : processEnv[f] \notin {"undefined", ""}} |->
                       Str(processEnv[k])]
        word == processEnv["firstHeadingPageTitle"]
        IsSet == IF revision = 1 THEN TRUE ELSE word \in {"true", "false"}
    IN [k \in DOMAIN strings \cup (IF IsSet THEN {"firstHeadingPageTitle"} ELSE {}) |->
           IF k = "firstHeadingPageTitle"
              THEN Bool(IF word = "true" THEN "true" ELSE "false")
              ELSE strings[k]]

\* CommandLineArgumentSettingsLoader.loadPartial.  The source file declares
\* the class twice; revision 1 takes firstHeaderPageTitle when it is a
\* boolean, revision 2 only when it is true.
CliLoadPartial(cliRevision, options) ==
    [k \in {f \in DOMAIN options :
               \/ f # "firstHeadingPageTitle"
               \/ cliRevision = 1
               \/ options[f] = Bool("true")} |-> options[k]]

\* The type test left out of the merge.
MergeUntyped(settings, partialSettings) ==
    [k \in DOMAIN settings \cup DOMAIN partialSettings |->
        IF k \in DOMAIN partialSettings THEN partialSettings[k] ELSE settings[k]]

\* combineSettings, one loader: the fields of partialSettings whose type is
\* that of the field's default replace those of settings.
Merge(settings, partialSettings) ==
    LET kept == {k \in DOMAIN partialSettings : partialSettings[k].t = TypeOfDefault(k)}
    IN [k \in DOMAIN settings \cup kept |->
           IF k \in kept THEN partialSettings[k] ELSE settings[k]]

\* combineSettings over the loaders in their order.
combineSettings(revision, cliRevision, config, processEnv, options) ==
    Merge(Merge(Merge(Merge(NoSettings, DEFAULT_SETTINGS),
                      ConfigFileLoadPartial(config)),
                EnvLoadPartial(revision, processEnv)),
          CliLoadPartial(cliRevision, options))

\* The configuration files, environments and command lines drawn.
ConfigFiles ==
    {[k \in ks |-> IF k = "confluenceParentId" THEN v
                   ELSE IF k = "firstHeadingPageTitle" THEN Bool("true") ELSE Str("SPACE")] :
        ks \in SUBSET {"confluenceParentId", "firstHeadingPageTitle", "confluenceSpaceKey"},
        v \in {Str("file"), Num("7")}}

Environments ==
    [{"confluenceParentId", "firstHeadingPageTitle"} -> {"undefined", "true", "false"}]

CommandLines ==
    {[k \in ks |-> IF k = "confluenceParentId" THEN Str("arg") ELSE Bool(b)] :
        ks \in SUBSET {"confluenceParentId", "firstHeadingPageTitle"},
        b \in {"true", "false"}}

InitSettings ==
    fn \in {[pc |-> "combineSettings", revision |-> r, cliRevision |-> a, config |-> c,
             processEnv |-> e, options |-> o, settings |-> NoSettings] :
               r \in {1, 2}, a \in {1, 2}, c \in ConfigFiles, e \in Environments,
               o \in CommandLines}

\* AutoSettingsLoader.loadPartial returns.
combineSettingsReturn ==
    /\ fn.pc = "combineSettings"
    /\ fn' = [fn EXCEPT !.pc = "combined",
                        !.settings = combineSettings(fn.revision, fn.cliRevision, fn.config,
                                                     fn.processEnv, fn.options)]
    /\ UNCHANGED <<pl, up, lt, prof, tree, topParent, remote, meta, pub, files, rnode, unit,
                   env, hist>>

\* --------------------------------------------------- the generic comparator
\* Plain nested values: null, undefined, primitives with their type, arrays
\* and objects.  Every value has the same shape so that any two compare.
Value(k, t, v, items, props) == [k |-> k, t |-> t, v |-> v, items |-> items, props |-> props]
Null == Value("null", "", "", <<>>, <<>>)
Undefined == Value("undefined", "", "", <<>>, <<>>)
Number(v) == Value("prim", "number", v, <<>>, <<>>)
String(v) == Value("prim", "string", v, <<>>, <<>>)
Array(items) == Value("array", "", "", items, <<>>)
Object(props) == Value("object", "", "", <<>>, props)

\* Array indices and lengths as JavaScript writes them.
Digits == <<"0", "1", "2", "3">>

\* typeof x === "object"
TypeofObject(x) == x.k \in {"null", "array", "object"}

\* Object.getOwnPropertyNames(x) and x[prop] for an array or an object.
OwnPropertyNames(x) ==
    IF x.k = "array" THEN {Digits[i] : i \in 1..Len(x.items)} \cup {"length"}
    ELSE DOMAIN x.props

Get(x, prop) ==
    IF x.k = "array"
       THEN IF prop = "length" THEN Number(Digits[Len(x.items) + 1])
            ELSE IF \E i \in 1..Len(x.items) : Digits[i] = prop
                    THEN x.items[CHOOSE i \in 1..Len(x.items) : Digits[i] = prop]
            ELSE Undefined
    ELSE IF prop \in DOMAIN x.props THEN x.props[prop] ELSE Undefined

\* val1 === val2 where at most one of the two is an object.
StrictEqual(x, y) == ~TypeofObject(x) /\ ~TypeofObject(y) /\ x = y

\* isEqual(obj1, obj2) on plain nested values.
RECURSIVE isEqualValue(_, _)
isEqualValue(obj1, obj2) ==
    LET Same(val1, val2) ==
            IF TypeofObject(val1) /\ TypeofObject(val2) THEN isEqualValue(val1, val2)
            ELSE StrictEqual(val1, val2)
    IN IF obj1.k = "null" \/ obj2.k = "null" THEN obj1.k = obj2.k
       ELSE IF ~TypeofObject(obj1) \/ ~TypeofObject(obj2) THEN StrictEqual(obj1, obj2)
       ELSE IF /\ obj1.k = "array" /\ obj2.k = "array"
               /\ \/ Len(obj1.items) # Len(obj2.items)
                  \/ \E index \in 1..Len(obj1.items) :
                        ~Same(obj1.items[index], obj2.items[index])
               THEN FALSE
       ELSE IF Cardinality(OwnPropertyNames(obj1)) # Cardinality(OwnPropertyNames(obj2))
               THEN FALSE
       ELSE \A prop \in OwnPropertyNames(obj1) : Same(Get(obj1, prop), Get(obj2, prop))

\* The values drawn: leaves, arrays and objects of leaves, and arrays and
\* objects holding one of those.
Leaves == {Null, Undefined, Number("0"), Number("1"), String("a")}

Flat ==
    {Array(<<>>)} \cup {Array(<<x>>) : x \in Leaves}
    \cup {Array(<<x, y>>) : x \in {Number("1"), String("a")}, y \in {Number("1"), String("a")}}
    \cup {Object([p \in ks |-> x]) : ks \in SUBSET {"a", "b"}, x \in {Undefined, Number("1")}}
    \cup {Object([p \in {"a", "b"} |-> IF p = "a" THEN Number("1") ELSE String("a")])}
    \cup {Object([p \in {"length"} |-> Number("0")]),
          Object([p \in {"0", "length"} |-> Number("1")])}

Nested ==
    {Array(<<x>>) : x \in Flat} \cup {Object([p \in {"a"} |-> x]) : x \in Flat}

Values == Leaves \cup Flat \cup Nested

InitIsEqual ==
    fn \in {[pc |-> "isEqual", obj1 |-> a, obj2 |-> b, result |-> FALSE] :
               a \in Values, b \in Values}

isEqualReturn ==
    /\ fn.pc = "isEqual"
    /\ fn' = [fn EXCEPT !.pc = "compared", !.result = isEqualValue(fn.obj1, fn.obj2)]
    /\ UNCHANGED <<pl, up, lt, prof, tree, topParent, remote, meta, pub, files, rnode, unit,
                   env, hist>>

\* ----------------------------------------------- document bodies as values
\* A node is an object with type and, as given, text, attrs, marks and
\* content; a mark is an object with type.
Mark(type) == Object([p \in {"type"} |-> String(type)])

\* sortAny on an array of marks: a fixed total order on the values.
MarkTypeRank(mark) == IF mark.props["type"] = String("em") THEN 1 ELSE 2

sortAny(items) == SortSeq(items, LAMBDA a, b : MarkTypeRank(a) < MarkTypeRank(b))

\* sortDeep on a value: an array is sorted after its elements, an object has
\* its values sorted, anything else is returned as it is.
RECURSIVE sortDeepValue(_)
sortDeepValue(object) ==
    IF object.k = "array"
       THEN Array(sortAny([i \in 1..Len(object.items) |-> sortDeepValue(object.items[i])]))
    ELSE IF object.k = "object"
       THEN Object([p \in DOMAIN object.props |-> sortDeepValue(object.props[p])])
    ELSE object

\* if (node.marks): any value but undefined, null, 0, "" and false.
Truthy(x) == x \notin {Undefined, Null, Number("0"), String("")}

\* orderMarks: traverse visits the node and then the nodes of its content.
RECURSIVE orderMarksValue(_)
orderMarksValue(adf) ==
    LET node == IF Truthy(Get(adf, "marks"))
                   THEN Object([p \in DOMAIN adf.props |->
                                   IF p = "marks" THEN sortDeepValue(adf.props[p])
                                   ELSE adf.props[p]])
                   ELSE adf
        content == Get(node, "content")
    IN IF content.k = "array"
          THEN Object([p \in DOMAIN node.props |->
                          IF p = "content"
                             THEN Array([i \in 1..Len(content.items) |->
                                            orderMarksValue(content.items[i])])
                             ELSE node.props[p]])
          ELSE node

adfEqualValue(first, second) == isEqualValue(orderMarksValue(first), orderMarksValue(second))

\* The bodies drawn: a doc of one or two text nodes; a text node has its
\* marks in either order, one mark, marks: undefined or no marks, and attrs
\* (one of them undefined or not) or none.
MarksGiven ==
    {Undefined, Array(<<Mark("em")>>), Array(<<Mark("em"), Mark("strong")>>),
     Array(<<Mark("strong"), Mark("em")>>)}

AttrsGiven ==
    {Object([q \in {"a"} |-> Number("1")]), Object([q \in {"a"} |-> Undefined]),
     Object([q \in {"b"} |-> Undefined])}

TextNodes ==
    {Object([p \in {"type", "text"} \cup opt |->
                CASE p = "type" -> String("text")
                  [] p = "text" -> String(text)
                  [] p = "marks" -> marks
                  [] p = "attrs" -> attrs]) :
        text \in {"a", "b"}, marks \in MarksGiven, attrs \in AttrsGiven,
        opt \in SUBSET {"marks", "attrs"}}

Doc(content) ==
    Object([p \in {"type", "content"} |-> IF p = "type" THEN String("doc") ELSE Array(content)])

Documents ==
    {Doc(<<n>>) : n \in TextNodes}
    \cup {Doc(<<n, m>>) : n \in {x \in TextNodes : DOMAIN x.props = {"type", "text"}},
                          m \in {x \in TextNodes : DOMAIN x.props = {"type", "text"}}}

InitAdfEqual ==
    fn \in {[pc |-> "adfEqual", first |-> a, second |-> b, result |-> FALSE] :
               a \in Documents, b \in Documents}

adfEqualReturn ==
    /\ fn.pc = "adfEqual"
    /\ fn' = [fn EXCEPT !.pc = "adfCompared", !.result = adfEqualValue(fn.first, fn.second)]
    /\ UNCHANGED <<pl, up, lt, prof, tree, topParent, remote, meta, pub, files, rnode, unit,
                   env, hist>>

\* ------------------------------------------------- cleanUpUrlIfConfluence
\* A string given as a link: not a URL, or a URL with its host, the
\* segments of its path, its query and its fragment; spelled tells whether
\* the string is written as URL.href writes it (lower-case scheme and host)
\* or otherwise.
Link(valid, spelled, host, path, query, fragment) ==
    [valid |-> valid, spelled |-> spelled, host |-> host, path |-> path, query |-> query,
     fragment |-> fragment]

\* The string "#".
Hash == Link(FALSE, "#", "", <<>>, "", "")

ConfluenceHost == "example.atlassian.net"

\* ~?[\w-]+ against a whole segment, and \d+ against the start of one: the
\* digits a segment starts with ("" when it starts with none).
SpaceKeys == {"MYSPACE", "~username", "my-space-key"}
LeadingDigits(segment) ==
    CASE segment = "123" -> "123"
      [] segment = "123abc" -> "123"
      [] OTHER -> ""

\* pathname.match(pathRegex): the first place where the segments wiki,
\* spaces, a space key, pages and a segment starting with digits follow one
\* another (0 when there is none); the expression is anchored at neither end.
MatchAt(path) ==
    LET hits == {i \in 1..(Len(path) - 4) :
                    /\ path[i] = "wiki"
                    /\ path[i + 1] = "spaces"
                    /\ path[i + 2] \in SpaceKeys
                    /\ path[i + 3] = "pages"
                    /\ LeadingDigits(path[i + 4]) # ""}
    IN IF hits = {} THEN 0 ELSE CHOOSE i \in hits : \A j \in hits : i <= j

cleanUpUrlIfConfluence(input) ==
    IF ~input.valid THEN Hash
    ELSE IF input.host # ConfluenceHost THEN input
    ELSE IF MatchAt(input.path) # 0
       THEN LET i == MatchAt(input.path) IN
            [input EXCEPT !.spelled = "href",
                          !.path = <<"wiki", "spaces", input.path[i + 2], "pages",
                                     LeadingDigits(input.path[i + 4])>>]
    ELSE input

\* The links drawn.
Pathnames ==
    {<<"some", "other", "path">>, <<"wiki", "spaces", "MYSPACE">>,
     <<"wiki", "spaces", "MYSPACE", "pages", "Title">>,
     <<"wiki", "spaces", "MYSPACE", "pages", "123abc">>,
     <<"display", "wiki", "spaces", "MYSPACE", "pages", "123">>,
     <<"wiki", "spaces", "MYSPACE", "pages", "123", "Title", "attachments">>,
     <<"wiki", "spaces", "my.space", "pages", "123">>}
    \cup {<<"wiki", "spaces", key, "pages", "123">> : key \in SpaceKeys}
    \cup {<<"wiki", "spaces", key, "pages", "123", "Title">> : key \in SpaceKeys}

Links ==
    {Hash, Link(FALSE, "not a valid url", "", <<>>, "", ""), Link(FALSE, "", "", <<>>, "", "")}
    \cup {Link(TRUE, spelled, host, path, query, fragment) :
             spelled \in {"href", "HTTPS"}, host \in {ConfluenceHost, "other-domain.com"},
             path \in Pathnames, query \in {"", "?query=param"}, fragment \in {"", "#section"}}

InitCleanUpUrl == fn \in {[pc |-> "cleanUpUrl", input |-> i, result |-> i] : i \in Links}

cleanUpUrlIfConfluenceReturn ==
    /\ fn.pc = "cleanUpUrl"
    /\ fn' = [fn EXCEPT !.pc = "cleaned", !.result = cleanUpUrlIfConfluence(fn.input)]
    /\ UNCHANGED <<pl, up, lt, prof, tree, topParent, remote, meta, pub, files, rnode, unit,
                   env, hist>>

\* ------------------------------------------------------- the callout rule
\* A token of the markdown parser: its type and its content (empty for the
\* open and close tokens).
Token(type, content) == [type |-> type, content |-> content]

\* content.match(panelRegex): the collapse sign of a callout line, "none"
\* for a callout without one, "no match" for any other text.
CollapseType(content) ==
    CASE content = "[!note] t" -> "none"
      [] content = "[!note]- t" -> "-"
      [] OTHER -> "no match"

\* The scan that starts after a blockquote_open: the first token from
\* position j on that is a blockquote_close (0: no callout) or whose content
\* matches (its position). Every blockquote_open of the lists drawn has its
\* blockquote_close, so the scan does not run past the end.
RECURSIVE CalloutAfter(_, _)
CalloutAfter(allTokens, j) ==
    IF j > Len(allTokens) THEN 0
    ELSE IF allTokens[j].type = "blockquote_close" THEN 0
    ELSE IF allTokens[j].content # "" /\ CollapseType(allTokens[j].content) # "no match" THEN j
    ELSE CalloutAfter(allTokens, j + 1)

\* panel: the reduce over the tokens from currentIndex on, with the
\* variables isInCallout, adfType and calloutStartIndex it carries along;
\* isInCallout is set at a callout and never reset.
RECURSIVE panelFrom(_, _, _, _, _)
panelFrom(allTokens, currentIndex, isInCallout, adfType, calloutStartIndex) ==
    IF currentIndex > Len(allTokens) THEN <<>>
    ELSE LET token == allTokens[currentIndex]
             found == IF token.type = "blockquote_open"
                         THEN CalloutAfter(allTokens, currentIndex + 1) ELSE 0
             inCallout == isInCallout \/ found # 0
             type == IF found = 0 THEN adfType
                     ELSE IF CollapseType(allTokens[found].content) = "-" THEN "expand"
                     ELSE "panel"
             start == IF found = 0 THEN calloutStartIndex ELSE found
             tokenToReturn ==
                 IF found # 0 THEN Token(IF type = "expand" THEN "expand_open" ELSE "panel_open", "")
                 ELSE IF token.type = "blockquote_close" /\ inCallout
                    THEN Token(IF type = "expand" THEN "expand_close" ELSE "panel_close", "")
                 ELSE IF currentIndex = start /\ inCallout
                         /\ CollapseType(token.content) # "no match"
                    THEN Token(token.type, "T")
                 ELSE token
         IN <<tokenToReturn>>
            \o panelFrom(allTokens, currentIndex + 1,
                         inCallout, type, start)

panel(tokens) == panelFrom(tokens, 1, FALSE, "panel", 0)

\* The token lists drawn: one or two blockquotes, each of one paragraph and
\* then, or not, a nested blockquote of one paragraph.
Contents == {"text", "[!note] t", "[!note]- t"}

Quote(content, inner) ==
    <<Token("blockquote_open", ""), Token("paragraph_open", ""), Token("inline", content),
      Token("paragraph_close", "")>> \o inner \o <<Token("blockquote_close", "")>>

Quotes ==
    {Quote(c, <<>>) : c \in Contents} \cup {Quote(c, Quote(d, <<>>)) : c \in Contents, d \in Contents}

TokenLists == Quotes \cup {q \o r : q \in Quotes, r \in Quotes}

InitPanel == fn \in {[pc |-> "panel", tokens |-> ts, result |-> ts] : ts \in TokenLists}

panelReturn ==
    /\ fn.pc = "panel"
    /\ fn' = [fn EXCEPT !.pc = "rewritten", !.result = panel(fn.tokens)]
    /\ UNCHANGED <<pl, up, lt, prof, tree, topParent, remote, meta, pub, files, rnode, unit,
                   env, hist>>

\* ------------------------------------------- the Obsidian client's errors
\* What a catch can see of a thrown value: whether it is an Error instance,
\* its message ("undefined" when it has no such property), and the status of
\* its response property (0 when it has none).
Thrown(instanceofError, message, status) ==
    [instanceofError |-> instanceofError, message |-> message, status |-> status]

NothingThrown == Thrown(FALSE, "undefined", 0)

ReceivedA(status) ==
    CASE status = 400 -> "Received a 400"
      [] status = 404 -> "Received a 404"
      [] status = 500 -> "Received a 500"
      [] OTHER -> "Received"

\* new HTTPError(msg, response): an Error with the response as a property.
HTTPError(msg, status) == Thrown(TRUE, msg, status)

\* {...e, isAxiosError: false, toJSON}: a plain object with the own
\* enumerable properties of e. The response of an HTTPError is one; the
\* message of an Error is not enumerable and name is on the prototype.
axiosLikeError(e) == Thrown(FALSE, "undefined", e.status)

\* The answers of requestUrl: a response with a status, or a rejection.
Statuses == {200, 204, 400, 404, 500}

Responses ==
    {[rejects |-> FALSE, status |-> s] : s \in Statuses} \cup {[rejects |-> TRUE, status |-> 0]}

\* sendRequest without a callback: what it throws (NothingThrown when it
\* returns the response's json).
sendRequest(response) ==
    IF response.rejects THEN axiosLikeError(Thrown(TRUE, "net::ERR_FAILED", 0))
    ELSE IF response.status >= 400
       THEN axiosLikeError(HTTPError(ReceivedA(response.status), response.status))
    ELSE NothingThrown

\* The test of the resolver's catch on the pinned-id fetch.
IsNotFound(error) == error.instanceofError /\ error.status # 0 /\ error.status = 404

\* The reason publishFile gives for what updatePageContent threw: the
\* message of an Error, String(e) of any other object.
ReasonOf(e) == IF e.instanceofError THEN e.message ELSE "[object Object]"

InitSendRequest ==
    fn \in {[pc |-> "sendRequest", response |-> r, thrown |-> NothingThrown,
             notFound |-> FALSE, reason |-> ""] : r \in Responses}

\* One request through the client, seen from the resolver's catch and from
\* publishFile's.
sendRequestReturn ==
    /\ fn.pc = "sendRequest"
    /\ LET e == sendRequest(fn.response)
       IN fn' = [fn EXCEPT !.pc = IF e = NothingThrown THEN "answered" ELSE "threw",
                           !.thrown = e,
                           !.notFound = e # NothingThrown /\ IsNotFound(e),
                           !.reason = IF e = NothingThrown THEN "" ELSE ReasonOf(e)]
    /\ UNCHANGED <<pl, up, lt, prof, tree, topParent, remote, meta, pub, files, rnode, unit,
                   env, hist>>

\* ----------------------------------------- the space key of a pinned page
\* StaticSettingsLoader.loadPartial: the settings given, as they are.
StaticLoadPartial(settings) == settings

InitStaticSettings ==
    fn \in {[pc |-> "static", revision |-> 1, cliRevision |-> 1, config |-> c,
             processEnv |-> [k \in {"confluenceParentId", "firstHeadingPageTitle"} |-> "undefined"],
             options |-> NoSettings, settings |-> StaticLoadPartial(c)] : c \in ConfigFiles}

\* settings.confluenceSpaceKey, "" when the settings hold none.
ConfiguredSpaceKey(settings) ==
    IF "confluenceSpaceKey" \in DOMAIN settings THEN settings["confluenceSpaceKey"].v ELSE ""

\* contentById.space?.key, or the configured key when the page came without
\* space data; "" when neither is there and the branch throws.
pageSpaceKey(space, settings) == IF space # "" THEN space ELSE ConfiguredSpaceKey(settings)

FailedToRetrieveSpaceKey == "Failed to retrieve space key"

\* ensurePageExists on a pinned id whose fetch answers 200, with the
\* settings a loader has produced: the page data with its space key and the
\* write-back of publish: true, or the diagnostic through the catch.
ensurePageExistsPinnedReturn ==
    /\ fn.pc \in {"combined", "static"}
    /\ \E space \in {"", "REMOTE"} :
          LET key == pageSpaceKey(space, fn.settings)
              e == IF key = "" THEN Thrown(TRUE, FailedToRetrieveSpaceKey, 0) ELSE NothingThrown
          IN fn' = [pc |-> IF key = "" THEN "pinnedThrew" ELSE "pinnedResolved",
                    loader |-> IF fn.pc = "static" THEN "static" ELSE "auto",
                    config |-> fn.config, settings |-> fn.settings, space |-> space,
                    spaceKey |-> key, thrown |-> e,
                    writeBack |-> IF key # "" THEN "publish: true"
                                  ELSE IF IsNotFound(e) THEN "publish: false" ELSE "none"]
    /\ UNCHANGED <<pl, up, lt, prof, tree, topParent, remote, meta, pub, files, rnode, unit,
                   env, hist>>

\* ------------------------------------------- the functions taken one by one
InitFunctions ==
    /\ Parked
    /\ up = NoUploads
    /\ lt = NoTree
    /\ pl = [pc |-> "off"]
    /\ \/ InitSettings
       \/ InitIsEqual
       \/ InitAdfEqual
       \/ InitCleanUpUrl
       \/ InitPanel
       \/ InitSendRequest
       \/ InitStaticSettings

NextFunctions ==
    \/ combineSettingsReturn
    \/ isEqualReturn
    \/ adfEqualReturn
    \/ cleanUpUrlIfConfluenceReturn
    \/ panelReturn
    \/ sendRequestReturn
    \/ ensurePageExistsPinnedReturn

SpecFunctions == InitFunctions /\ [][NextFunctions]_vars

\* ================================================================ claims
UnitWriteOps == {"update", "upload", "add", "remove"}

\* The nodes that are publish units of the current run.
IsUnit(n) == unit[n].pc # "idle"

\* C1: a publish unit whose snapshot last editor is not the acting identity
\* fails with the identity-conflict error, and no update, attachment
\* upload, label add or label remove is issued on its page.
C1_IdentityConflictFailsUnit ==
    \A n \in Nodes :
        (IsUnit(n) /\ unit[n].lastUpdatedBy # pub.myAccountId) =>
            /\ unit[n].pc = "failed"
            /\ unit[n].reason = "identity-conflict"
            /\ \A op \in UnitWriteOps : hist.calls[unit[n].pageId][op] = 0

\* A run has returned with a unit failed for its last editor while its
\* sibling went on to update its own page.
C1_Witness ==
    /\ pub.pc = "returned"
    /\ \E n, m \in Nodes :
          /\ unit[n].lastUpdatedBy = Other
          /\ unit[n].pc = "failed"
          /\ unit[m].pc = "done"
          /\ "update" \in hist.served[unit[m].pageId]

\* C2: no update of a run is accepted on a page whose last editor, at the
\* moment the remote serves the update, is not the acting identity.
C2_NoOverwriteOfAnotherEditor ==
    \A a \in hist.accepted : a.by = Me

\* The other editor edited a page between the resolver's read and the
\* unit's update, and the update was refused for its version.
C2_Witness ==
    \E n \in Nodes :
        /\ unit[n].pc = "failed"
        /\ unit[n].reason = "version-conflict"
        /\ unit[n].lastUpdatedBy = Me
        /\ remote[unit[n].pageId].by = Other
        /\ remote[unit[n].pageId].body = OtherBody

HasTop(ancestors) == \E i \in DOMAIN ancestors : ancestors[i].id = TopPage

\* C3 (as claimed), on the pages that have ancestors (content type page):
\* every page a run creates or writes to lies inside the descendant set of
\* the top page when it is written, however it was resolved.
C3_WritesStayInTree ==
    \A p \in hist.outside : remote[p].type # "page"

\* C4 (as claimed): a node without pinned id whose title search finds a
\* page with no ancestor equal to the top page fails with the cross-tree
\* error; nothing is created, written back or written on the found page.
C4_TitleMatchOutsideTreeFails ==
    \A n \in Nodes :
        (rnode[n].via = "title" /\ ~HasTop(rnode[n].details.ancestors)) =>
            /\ rnode[n].pc = "failed"
            /\ rnode[n].reason = "cross-tree-collision"
            /\ meta[n].publish = "unset"
            /\ hist.calls[NewId[n]]["create"] = 0
            /\ \A op \in WriteOps : hist.calls[rnode[n].details.id][op] = 0

\* C4 (amended): the same for a document of content type page; a blog post
\* found by title is adopted without the ancestor check.
C4_PageTitleMatchOutsideTreeFails ==
    \A n \in Nodes :
        (/\ rnode[n].via = "title"
         /\ files[n].contentType = "page"
         /\ ~HasTop(rnode[n].details.ancestors)) =>
            /\ rnode[n].pc = "failed"
            /\ rnode[n].reason = "cross-tree-collision"
            /\ meta[n].publish = "unset"
            /\ hist.calls[NewId[n]]["create"] = 0
            /\ \A op \in WriteOps : hist.calls[rnode[n].details.id][op] = 0

\* A page document's title search found a page outside the tree and the
\* resolution failed, while its sibling's resolution was recorded.
C4_Witness ==
    \E n, m \in Nodes :
        /\ rnode[n].via = "title"
        /\ files[n].contentType = "page"
        /\ ~HasTop(rnode[n].details.ancestors)
        /\ rnode[n].pc = "failed"
        /\ rnode[m].pc = "done"

SelectedNodes == {n \in Nodes : pub.filter \in {"", PathOf[n]}}

\* C5: an error raised while a unit is processed is caught at the unit
\* boundary: the unit is failed with a reason and publish() is not
\* rejected; when publish() returns there is exactly one result per unit, a
\* failed unit's result has a reason and no summary, and every other unit
\* has run to its end and has a summary.
C5_UnitFailuresAreCaught ==
    /\ \A n \in Nodes :
          hist.failedAt[n] # "none" =>
              /\ unit[n].pc = "failed"
              /\ unit[n].reason # ""
              /\ pub.pc \in {"publishing", "returned"}
    /\ pub.pc = "returned" =>
          /\ Len(pub.results) = Cardinality(SelectedNodes)
          /\ \A n \in SelectedNodes :
                Cardinality({i \in DOMAIN pub.results : pub.results[i].node = n}) = 1
          /\ \A i \in DOMAIN pub.results :
                LET r == pub.results[i] IN
                IF hist.failedAt[r.node] # "none"
                   THEN r.reason # "" /\ r.successfulUploadResult = {}
                   ELSE /\ r.reason = ""
                        /\ r.successfulUploadResult = {unit[r.node].result}
                        /\ unit[r.node].pc = "done"

\* publish() returned two results: one unit failed at a remote call, the
\* other completed with its content updated.
C5_Witness ==
    /\ pub.pc = "returned"
    /\ \E n, m \in Nodes :
          /\ hist.failedAt[n] \in DOMAIN OpOfPc
          /\ unit[m].pc = "done"
          /\ unit[m].result.contentResult = "updated"
          /\ Len(pub.results) = 2

\* C6 (as claimed): a cross-tree collision or a 404 on a pinned id at one
\* node does not reject publish(): the aggregate result list is still
\* returned.
C6_ResolveFailureIsIsolated ==
    \A n \in Nodes :
        rnode[n].reason \in {"cross-tree-collision", "upstream-not-found"} =>
            pub.pc # "rejected"

\* The unit has run its pipeline and taken the decision to update or not.
PastDiff(n) ==
    \/ unit[n].pc \in {"updateContent", "getLabelsForContent", "removeLabel",
                       "addLabelsToContent", "done"}
    \/ /\ unit[n].pc = "failed"
       /\ hist.failedAt[n] \in {"updateContent", "getLabelsForContent", "removeLabel",
                                "addLabelsToContent"}

\* Two bodies are the same document: the same text and media and the same
\* marks, in any order.
SameDocument(a, b) ==
    /\ a.text = b.text
    /\ a.media = b.media
    /\ Len(a.marks) = Len(b.marks)
    /\ Range(a.marks) = Range(b.marks)

AncestorIds(ancestors) == [i \in DOMAIN ancestors |-> ancestors[i].id]

UpdateIsWellFormed(n) ==
    LET u == unit[n]
        req == u.updateContentDetails
    IN /\ req.id = u.pageId
       /\ req.version = u.version + 1
       /\ req.body = u.adfToUpload
       /\ req.details.title = files[n].pageTitle
       /\ req.details.type = files[n].contentType
       /\ "ancestors" \in DOMAIN req.details =>
             AncestorIds(req.details.ancestors) = u.ancestors

\* C7 (as claimed): once a unit has passed both checks and run its
\* pipeline, updateContent has been issued once if the pipeline's body is
\* another document than the snapshot's or the title, type or ancestors
\* differ from the snapshot, and not at all otherwise; the call carries body
\* and metadata with version = snapshot version + 1; contentResult is
\* updated exactly when the call is issued.
C7_OneUpdateIffDifferent ==
    \A n \in Nodes :
        PastDiff(n) =>
            LET u == unit[n]
                e == u.existingPageData
                differs == \/ ~SameDocument(e.adfContent, u.adfToUpload)
                           \/ e.pageTitle # files[n].pageTitle
                           \/ e.contentType # files[n].contentType
                           \/ AncestorIds(e.ancestors) # u.ancestors
                issued == hist.calls[u.pageId]["update"]
            IN /\ issued = IF differs THEN 1 ELSE 0
               /\ (u.result.contentResult = "updated") <=> (issued = 1)
               /\ issued = 1 => UpdateIsWellFormed(n)

\* C7 (amended): the ancestors take part in the comparison, and in the
\* update, only for a document of content type page that does not keep its
\* parent page (dontChangeParentPageId).
C7_OneUpdateIffComparedPartsDiffer ==
    \A n \in Nodes :
        PastDiff(n) =>
            LET u == unit[n]
                e == u.existingPageData
                compared == /\ files[n].contentType = "page"
                            /\ ~files[n].dontChangeParentPageId
                differs == \/ ~SameDocument(e.adfContent, u.adfToUpload)
                           \/ e.pageTitle # files[n].pageTitle
                           \/ e.contentType # files[n].contentType
                           \/ compared /\ AncestorIds(e.ancestors) # u.ancestors
                issued == hist.calls[u.pageId]["update"]
            IN /\ issued = IF differs THEN 1 ELSE 0
               /\ (u.result.contentResult = "updated") <=> (issued = 1)
               /\ issued = 1 => /\ UpdateIsWellFormed(n)
                                /\ compared <=> "ancestors" \in DOMAIN
                                                   u.updateContentDetails.details

\* Both decisions were taken in one run: a unit whose body matched the
\* snapshot up to the order of its marks and whose ancestors alone differed
\* issued its one update, and a unit with nothing different issued none.
C7_Witness ==
    \E n, m \in Nodes :
        /\ n # m
        /\ unit[n].pc = "done"
        /\ unit[n].existingPageData.adfContent # unit[n].adfToUpload
        /\ SameDocument(unit[n].existingPageData.adfContent, unit[n].adfToUpload)
        /\ hist.calls[unit[n].pageId]["update"] = 1
        /\ unit[m].pc = "done"
        /\ hist.calls[unit[m].pageId]["update"] = 0

\* C8 (as claimed): in a run repeated with no local change and no remote
\* drift, wherever the top page sits in the remote hierarchy, no
\* createContent and no updateContent is issued and every unit reports
\* contentResult = same.
C8_RerunIssuesNoWrites ==
    (pub.run > 1 /\ pub.rerun) =>
        /\ \A p \in PageIds : /\ hist.calls[p]["create"] = 0
                              /\ hist.calls[p]["update"] = 0
        /\ pub.pc = "returned" =>
              \A n \in Nodes : /\ unit[n].pc = "done"
                               /\ unit[n].result.contentResult = "same"

\* C9 (as claimed): a unit of such a repeated run reports imageResult =
\* same, and a successful unit of any run reports imageResult = updated
\* only if an attachment was uploaded for it in that run.
C9_ImageResultFollowsUploads ==
    /\ (pub.run > 1 /\ pub.rerun /\ pub.pc = "returned") =>
          \A n \in Nodes : unit[n].result.imageResult = "same"
    /\ \A n \in Nodes :
          (unit[n].pc = "done" /\ unit[n].result.imageResult = "updated") =>
              /\ unit[n].imageStatus = "uploaded"
              /\ "upload" \in hist.served[unit[n].pageId]

\* The writes of a unit that precede the call at which it failed.
WritesBefore(pc) ==
    CASE pc \in {"check", "getAttachments", "createOrUpdateAttachments"} -> {}
      [] pc = "updateContent" -> {"upload"}
      [] pc = "getLabelsForContent" -> {"upload", "update"}
      [] pc \in {"removeLabel", "addLabelsToContent"} -> {"upload", "update", "remove"}
      [] OTHER -> {}

\* What a completed unit leaves on its page: the document's labels, its
\* asset, and the update it reported.
Reconciled(n) ==
    LET u == unit[n]
        served == hist.served[u.pageId] \cap UnitWriteOps
    IN /\ remote[u.pageId].labels = Range(files[n].tags)
       /\ files[n].contents.media = "local:img" => remote[u.pageId].att = AssetHash
       /\ (u.result.contentResult = "updated") <=> ("update" \in served)
       /\ (u.result.labelResult = "updated") <=> (served \cap {"remove", "add"} # {})

Untagged(currentLabels, tags) ==
    SelectSeq(currentLabels, LAMBDA l : l \notin Range(tags))

Missing(currentLabels, tags) ==
    SelectSeq(tags, LAMBDA l : l \notin Range(currentLabels))

\* The snapshot of unit n holds the document's body, title, type and
\* ancestors, and lacks exactly one of its tags.
OnlyOneTagAdded(n) ==
    LET u == unit[n]
        e == u.existingPageData
    IN /\ SameDocument(e.adfContent, u.adfToUpload)
       /\ e.pageTitle = files[n].pageTitle
       /\ e.contentType = files[n].contentType
       /\ AncestorIds(e.ancestors) = u.ancestors
       /\ Untagged(u.currentLabels, files[n].tags) = <<>>
       /\ Len(Missing(u.currentLabels, files[n].tags)) = 1

Returned(c) == c.status \in {"existing", "uploaded"}

\* C12 (as claimed): when the same bytes are uploaded twice under the same
\* key within one unit, the second call issues no upload and returns
\* existing with the identifiers of the first; so within a unit no upload
\* call is issued twice for the same key and bytes.
C12_SecondUploadIsExisting ==
    \A i, j \in DOMAIN up.log :
        LET a == up.log[i]
            b == up.log[j]
        IN (/\ i < j
            /\ Returned(a) /\ Returned(b)
            /\ a.unit = b.unit /\ a.key = b.key /\ a.hash = b.hash) =>
               /\ b.status = "existing"
               /\ ~b.called
               /\ b.id = a.id
               /\ b.collection = a.collection

\* Call i uploaded under the key of call j in an earlier unit, and no later
\* call before j's unit uploaded under that key.
LastUploadBefore(i, j) ==
    LET a == up.log[i]
        b == up.log[j]
    IN /\ a.status = "uploaded"
       /\ a.unit < b.unit
       /\ a.key = b.key
       /\ ~\E k \in DOMAIN up.log :
              /\ k > i
              /\ up.log[k].status = "uploaded"
              /\ up.log[k].unit < b.unit
              /\ up.log[k].key = b.key

\* C13: a call of a later unit under a key an earlier unit uploaded: when
\* the bytes are those last uploaded it issues no upload call and returns
\* existing with the id and collection stored by that upload; when the bytes
\* differ it issues the upload call and returns uploaded.
C13_UnchangedAssetIsNotReuploaded ==
    \A i, j \in DOMAIN up.log :
        LET a == up.log[i]
            b == up.log[j]
        IN (Returned(b) /\ LastUploadBefore(i, j)) =>
              IF a.hash = b.hash
                 THEN /\ b.status = "existing"
                      /\ ~b.called
                      /\ b.id = a.id
                      /\ b.collection = a.collection
                 ELSE /\ b.status = "uploaded"
                      /\ b.called

\* A second unit found an asset of the first unit unchanged and returned it
\* from the index, with the id the first unit's upload was given.
C13_Witness ==
    \E i, j \in DOMAIN up.log :
        /\ LastUploadBefore(i, j)
        /\ up.log[i].hash = up.log[j].hash
        /\ up.log[j].status = "existing"
        /\ ~up.log[j].called
        /\ up.log[j].id = up.log[i].id

\* The calls of uploadFile that found their file.
FromFile(c) == c.fn = "uploadFile" /\ Returned(c)

\* C14 (as claimed): identical bytes referenced under different local paths
\* from one page resolve to the same upload key and are uploaded once.
C14_SameBytesShareOneKey ==
    \A i, j \in DOMAIN up.log :
        LET a == up.log[i]
            b == up.log[j]
        IN (/\ i < j
            /\ FromFile(a) /\ FromFile(b)
            /\ a.unit = b.unit
            /\ a.hash = b.hash
            /\ a.filePath # b.filePath) =>
               /\ a.key = b.key
               /\ ~(a.called /\ b.called)

\* C14 (amended): the upload key is derived from the hash of the file's
\* path and its file name, so two references share a key exactly when they
\* resolve to the same local path, whatever their bytes; identical bytes
\* under different paths have different keys and are kept as one remote
\* object per path.
C14_KeyFollowsPath ==
    \A i, j \in DOMAIN up.log :
        LET a == up.log[i]
            b == up.log[j]
        IN (FromFile(a) /\ FromFile(b)) =>
              /\ (a.key = b.key) <=> (a.filePath = b.filePath)
              /\ (a.filePath # b.filePath /\ a.hash = b.hash) =>
                    /\ a.key \in DOMAIN up.store
                    /\ b.key \in DOMAIN up.store

\* One unit uploaded the same bytes from two local paths: two upload calls,
\* two attachments with the same hash on the page.
C14_Witness ==
    \E i, j \in DOMAIN up.log :
        /\ FromFile(up.log[i]) /\ FromFile(up.log[j])
        /\ up.log[i].unit = up.log[j].unit
        /\ up.log[i].hash = up.log[j].hash
        /\ up.log[i].filePath # up.log[j].filePath
        /\ up.log[i].status = "uploaded"
        /\ up.log[j].status = "uploaded"
        /\ up.log[i].key # up.log[j].key
        /\ {up.log[i].key, up.log[j].key} \subseteq DOMAIN up.store

\* C15 (as claimed): uploadFile reads the literal name and, only when that
\* found nothing, the decoded name once more; for every file name, when no
\* read finds a file the call returns null, raises no error and issues no
\* upload call.
C15_MissingAssetReturnsNull ==
    \A i \in DOMAIN up.log :
        LET c == up.log[i] IN
        c.fn = "uploadFile" =>
            /\ Len(c.reads) \in {1, 2}
            /\ c.reads[1] = c.name
            /\ Len(c.reads) = 2 => c.filePath # c.name
            /\ c.filePath = <<>> =>
                  /\ c.status = "null"
                  /\ ~c.called

\* Two nodes of the tree have the same page title.
SameTitleTwice(nodes) ==
    \E k1, k2 \in DOMAIN nodes :
        /\ k1 # k2
        /\ nodes[k1].file # << >> /\ nodes[k2].file # << >>
        /\ nodes[k1].file[1].pageTitle = nodes[k2].file[1].pageTitle

\* C16: a tree returned by createFolderStructure has a document on every
\* node and pairwise distinct page titles over all nodes, the root and the
\* placeholders included; when two nodes have the same title the
\* uniqueness error is thrown and no tree is returned.
C16_ReturnedTitlesAreUnique ==
    /\ lt.pc = "returned" =>
          /\ \A k \in DOMAIN lt.nodes : lt.nodes[k].file # << >>
          /\ ~SameTitleTwice(lt.nodes)
    /\ (lt.pc \in {"returned", "thrown"} /\ SameTitleTwice(lt.nodes)) => lt.pc = "thrown"

\* Construction threw because the placeholder of a folder has the title of
\* a file elsewhere in the tree.
C16_Witness ==
    /\ lt.pc = "thrown"
    /\ \E k1, k2 \in DOMAIN lt.nodes :
          /\ k1 # k2
          /\ lt.nodes[k1].file[1].synthesized
          /\ ~lt.nodes[k2].file[1].synthesized
          /\ lt.nodes[k1].file[1].pageTitle = lt.nodes[k2].file[1].pageTitle

\* The folder pass has run.
Processed == lt.pc \in {"checkUniquePageTitle", "returned", "thrown"}

\* The folders of the tree: the nodes that had no file before the pass.
Folders == {k \in DOMAIN lt.before : lt.before[k].file = << >>}

\* The positions, among the children a folder had before the pass, of the
\* files whose parsed name is in a set of names.
ChildFiles(k, names) ==
    {i \in DOMAIN lt.before[k].children :
        /\ lt.before[Append(k, lt.before[k].children[i])].file # << >>
        /\ ParsedName(lt.before[k].children[i]) \in names}

\* The parsed names that equal the name of folder k.
NamedAs(k) == {nm \in {ParsedName(c) : c \in Range(lt.before[k].children)} :
                 <<nm>> = lt.before[k].name}

\* The parsed names that are index or README in any case.
AnyCaseIndexNames(k) == {nm \in {ParsedName(c) : c \in Range(lt.before[k].children)} :
                           IsIndexNameAnyCase(nm)}

First(s) == CHOOSE i \in s : \A j \in s : i <= j

FileOfChild(k, i) == lt.before[Append(k, lt.before[k].children[i])].file[1]

IsPlaceholderOf(file, k) == file.synthesized /\ file.pageTitle = lt.before[k].name

SettledOn(k) ==
    LET kids == lt.before[k].children
        same == {i \in DOMAIN kids : <<ParsedName(kids[i])>> = lt.before[k].name}
        index == {i \in DOMAIN kids : ParsedName(kids[i]) \in {"index", "README", "readme"}}
    IN IF same # {} THEN First(same) ELSE IF index # {} THEN First(index) ELSE 0

C19_FolderDocumentPrecedence ==
    Processed =>
        \A k \in Folders :
            LET same == ChildFiles(k, NamedAs(k))
                index == ChildFiles(k, AnyCaseIndexNames(k))
                i == IF same # {} THEN First(same)
                     ELSE IF index # {} THEN First(index) ELSE 0
                file == lt.nodes[k].file
            IN /\ Len(file) = 1
               /\ IF i # 0
                     THEN /\ file[1] = FileOfChild(k, i)
                          /\ lt.nodes[k].children = Without(lt.before[k].children, i)
                          /\ Append(k, lt.before[k].children[i]) \notin DOMAIN lt.nodes
                     ELSE /\ IsPlaceholderOf(file[1], k)
                          /\ lt.nodes[k].children = lt.before[k].children
               /\ \A c \in DOMAIN lt.nodes :
                     (c # k /\ lt.nodes[c].file # << >>) => lt.nodes[c].file # file

\* Two documents of the run resolve to the same display title.
DuplicateTitles ==
    \E n, m \in Nodes : n # m /\ files[n].pageTitle = files[m].pageTitle

\* No call has been issued on any page of the tree and no resolver task has
\* started.
NoPageCall ==
    /\ \A n \in Nodes : rnode[n].pc = "idle" /\ unit[n].pc = "idle"
    /\ \A p \in PageIds : \A o \in Ops : hist.calls[p][o] = 0
    /\ hist.accepted = {}
    /\ \A p \in PageIds : hist.served[p] = {}

BeforeTree == {"idle", "getCurrentUser", "getParentPage", "getMarkdownFilesToUpload"}

\* C17 (as claimed): in a run whose documents contain two with the same
\* display title, the tree build fails before any remote call is made.
C17_DuplicateTitlesFailBeforeAnyCall ==
    DuplicateTitles =>
        /\ pub.pc \in BeforeTree \cup {"rejected"}
        /\ pub.pc = "rejected" => hist.runCalls = {} /\ NoPageCall

\* C17 (amended): in such a run the tree build fails before any call that
\* resolves, creates or writes a page of the tree; the fetch of the acting
\* identity and the fetch of the configured parent page have been made.
C17_DuplicateTitlesFailBeforeResolution ==
    DuplicateTitles =>
        /\ pub.pc \in BeforeTree \cup {"rejected"}
        /\ NoPageCall
        /\ pub.pc = "rejected" =>
              hist.runCalls = {"users.getCurrentUser", "content.getContentById"}

\* A run with two documents of one title has been rejected.
C17_Witness == DuplicateTitles /\ pub.pc = "rejected"

\* C20: a node's fetch, search or create is issued only once its parent has
\* resolved, under the id the parent resolved to (the top page for the
\* nodes under the root); a created page sits under that id.
C20_ParentBeforeChild ==
    \A n \in Nodes :
        /\ rnode[n].pc # "idle" =>
              IF tree[n] = Root THEN rnode[n].parentPageId = TopPage
              ELSE /\ rnode[tree[n]].pc = "done"
                   /\ rnode[tree[n]].details.id \in PageIds
                   /\ remote[rnode[tree[n]].details.id].exists
                   /\ rnode[n].parentPageId = rnode[tree[n]].details.id
        /\ hist.calls[NewId[n]]["create"] > 0 => rnode[n].pc # "idle"
        /\ (rnode[n].via = "create" /\ files[n].contentType = "page") =>
              remote[NewId[n]].parent = rnode[n].parentPageId

\* A child is being created under the page its parent has just created.
C20_Witness ==
    /\ tree[2] = 1
    /\ rnode[1].pc = "done"
    /\ rnode[1].via = "create"
    /\ rnode[2].pc = "createContent"
    /\ rnode[2].parentPageId = NewId[1]

\* Node n has no pre-existing remote match: no pinned id, and no page other
\* than the one created for it holds its title and content type.
LacksMatch(n) ==
    /\ files[n].pageId = NoPage
    /\ \A p \in PageIds \ {NewId[n]} :
          ~(/\ remote[p].exists
            /\ remote[p].type = files[n].contentType
            /\ remote[p].title = files[n].pageTitle)

\* C21: createContent is called at most once for a node, once for every
\* resolved node that has no pre-existing remote match and never for a
\* node that has one; a created page of content type page sits under the
\* resolved id of its parent node.
C21_OneCreatePerUnmatchedNode ==
    \A n \in Nodes :
        LET creates == hist.calls[NewId[n]]["create"]
            parent == IF tree[n] = Root THEN TopPage ELSE rnode[tree[n]].details.id
        IN /\ creates <= 1
           /\ (pub.pc \in {"resolving", "publishing", "returned", "rejected"}
                  /\ ~LacksMatch(n)) => creates = 0
           /\ (rnode[n].pc = "done" /\ LacksMatch(n)) => creates = 1
           /\ (remote[NewId[n]].exists /\ remote[NewId[n]].type = "page") =>
                 remote[NewId[n]].parent = parent

\* Both nodes are resolved: one was created, once, under its parent; the
\* other had a match and was not created.
C21_Witness ==
    \E n, m \in Nodes :
        /\ tree[m] = n
        /\ rnode[n].pc = "done" /\ rnode[m].pc = "done"
        /\ ~LacksMatch(n) /\ hist.calls[NewId[n]]["create"] = 0
        /\ LacksMatch(m) /\ hist.calls[NewId[m]]["create"] = 1
        /\ remote[NewId[m]].parent = rnode[n].details.id

\* The node is pinned to a page id in this run.
Pinned(n) == pub.pc \in {"resolving", "publishing", "returned", "rejected"}
             /\ files[n].pageId # NoPage

C24_DiscoveryRecordedOnce ==
    \A n \in Nodes :
        /\ Len(hist.marked[n]) <= 1
        /\ Len(hist.marked[n]) = 1 => rnode[n].pc \in {"done", "failed"}
        /\ rnode[n].pc = "done" =>
              /\ rnode[n].via \in {"id", "title", "create"}
              /\ hist.marked[n] = << [publish |-> "true", pageId |-> rnode[n].details.id] >>
              /\ meta[n] = [publish |-> "true", pageId |-> rnode[n].details.id]
        /\ \A m \in Nodes :
              (tree[m] = n /\ rnode[m].pc # "idle") =>
                  hist.marked[n] = << [publish |-> "true", pageId |-> rnode[m].parentPageId] >>

\* A created parent is recorded on its source file and its child is being
\* looked up.
C24_Witness ==
    \E n, m \in Nodes :
        /\ tree[m] = n
        /\ rnode[n].via = "create"
        /\ hist.marked[n] = << [publish |-> "true", pageId |-> NewId[n]] >>
        /\ rnode[m].pc \in {"getContent", "getContentById"}

\* The resolved page ids on the path from the root down to the parent of
\* node n, the top page id first.
PathIds(n) ==
    IF tree[n] = Root THEN <<TopPage>>
    ELSE <<TopPage, rnode[tree[n]].details.id>>

\* The nodes in pre-order, those the filter keeps.
PreOrder == SelectSeq(<<1, 2>>, LAMBDA n : pub.filter \in {"", PathOf[n]})

InPipeline == pl.pc \in {"extract", "transform", "load", "returned", "rejected"}

\* C25: every extract has run on the original body before a transform is
\* started; every transform has completed before a load runs; the loads run
\* one at a time in registration order, each on the body the previous load
\* returned (the original body for the first) with its own plugin's
\* transform result; when a transform fails no load runs.
C25_ExtractTransformThenLoadInOrder ==
    InPipeline =>
        LET plugins == pl.adfProcessingPlugins IN
        /\ \A i \in DOMAIN pl.extractedData :
              pl.extractedData[i] = <<"extracted", plugins[i]>> \o pl.adf
        /\ pl.results # <<>> => Len(pl.extractedData) = Len(plugins)
        /\ pl.pc = "extract" => pl.results = <<>>
        /\ Len(pl.loads) <= Len(plugins)
        /\ \A k \in DOMAIN pl.loads :
              /\ \A i \in DOMAIN plugins : pl.loads[k].results[i] = "ok"
              /\ pl.loads[k].plugin = plugins[k]
              /\ pl.loads[k].transformedItems =
                    <<"transformed", "extracted", plugins[k]>> \o pl.adf
              /\ pl.loads[k].accADF =
                    IF k = 1 THEN pl.adf
                    ELSE LoadInto(plugins[k - 1], pl.loads[k - 1].accADF,
                                  pl.loads[k - 1].transformedItems)
        /\ (\E i \in DOMAIN pl.results : pl.results[i] = "failed") =>
              pl.loads = <<>> /\ pl.pc \in {"transform", "rejected"}
        /\ pl.pc = "returned" => Len(pl.loads) = Len(plugins)

\* Three plugins have loaded one after another and the pipeline returned.
C25_Witness ==
    /\ pl.pc = "returned"
    /\ Len(pl.adfProcessingPlugins) = 3
    /\ Len(pl.loads) = 3
    /\ pl.loads[3].accADF # pl.loads[2].accADF
    /\ pl.loads[2].accADF # pl.adf

\* C26: the plugin list of the Publisher is the plugins it was constructed
\* with, in their order, followed by the built-in asset uploader; it is the
\* asset uploader alone when none was given; every pipeline runs with that
\* list, whatever the caller does to its own list afterwards.
C26_AssetUploaderIsAlwaysLast ==
    pl.pc \notin {"off", "new"} =>
        /\ pl.adfProcessingPlugins = pl.given \o <<"ImageUploaderPlugin">>
        /\ pl.given = <<>> => pl.adfProcessingPlugins = <<"ImageUploaderPlugin">>
        /\ pl.adfProcessingPlugins[Len(pl.adfProcessingPlugins)] = "ImageUploaderPlugin"
        /\ \A r \in DOMAIN pl.used : pl.used[r] = pl.given \o <<"ImageUploaderPlugin">>

\* The caller has changed its list after the construction and two pipelines
\* have run with the list of the construction.
C26_Witness ==
    /\ pl.pc = "returned"
    /\ pl.callerPlugins # pl.given
    /\ Len(pl.given) = 2
    /\ Len(pl.used) = 2
    /\ Len(pl.loads) = 3
    /\ pl.loads[3].plugin = "ImageUploaderPlugin"

\* The sources of one field in their order, and the value the last of them
\* that sets the field gives it.
SettingsFields == {"confluenceParentId", "firstHeadingPageTitle", "confluenceSpaceKey"}

SetByArguments(k) == k \in DOMAIN fn.options
SetByEnvironment(k) == k \in DOMAIN fn.processEnv /\ fn.processEnv[k] # "undefined"
SetByFile(k) == k \in DOMAIN fn.config
SetByDefaults(k) == k \in DOMAIN DEFAULT_SETTINGS

LastSourceValue(k) ==
    IF SetByArguments(k) THEN fn.options[k]
    ELSE IF SetByEnvironment(k)
            THEN IF k = "firstHeadingPageTitle" THEN Bool(fn.processEnv[k])
                 ELSE Str(fn.processEnv[k])
    ELSE IF SetByFile(k) THEN fn.config[k]
    ELSE DEFAULT_SETTINGS[k]

\* C28: for every settings field the combined value is the one given by the
\* last source, in the order defaults, config file, environment, command-line
\* arguments, that sets the field; a source in which the field is not set
\* never overrides an earlier one.
C28_LastSourceThatSetsTheFieldWins ==
    fn.pc = "combined" =>
        \A k \in SettingsFields :
            (SetByArguments(k) \/ SetByEnvironment(k) \/ SetByFile(k) \/ SetByDefaults(k)) =>
                /\ k \in DOMAIN fn.settings
                /\ fn.settings[k] = LastSourceValue(k)

\* C29: isEqual(a, b) is true only if a and b have the same structure: the
\* same kind at every position, the same key sets, the same array lengths
\* and element order, and equal primitive leaves.
C29_IsEqualHasNoFalsePositive ==
    fn.pc = "compared" => (fn.result => fn.obj1 = fn.obj2)

\* Two values alike but for the order of the marks of their nodes.
RECURSIVE SameButMarkOrder(_, _)
SameButMarkOrder(x, y) ==
    /\ x.k = y.k
    /\ IF x.k = "object"
          THEN /\ DOMAIN x.props = DOMAIN y.props
               /\ \A p \in DOMAIN x.props :
                     IF p = "marks" /\ x.props[p].k = "array" /\ y.props[p].k = "array"
                        THEN /\ Len(x.props[p].items) = Len(y.props[p].items)
                             /\ Range(x.props[p].items) = Range(y.props[p].items)
                        ELSE SameButMarkOrder(x.props[p], y.props[p])
       ELSE IF x.k = "array"
          THEN /\ Len(x.items) = Len(y.items)
               /\ \A i \in 1..Len(x.items) : SameButMarkOrder(x.items[i], y.items[i])
       ELSE x = y

\* A value without the marks of its nodes: type, attrs, text and content.
RECURSIVE WithoutMarks(_)
WithoutMarks(x) ==
    IF x.k = "object"
       THEN Object([p \in DOMAIN x.props \ {"marks"} |-> WithoutMarks(x.props[p])])
    ELSE IF x.k = "array"
       THEN Array([i \in 1..Len(x.items) |-> WithoutMarks(x.items[i])])
    ELSE x

\* C30: adfEqual is true for bodies that differ only in the order of a
\* node's marks, and false for bodies that differ in a node's type, attrs,
\* text, or the order or number of its child nodes.
C30_MarkOrderOnlyIsEqualContentIsNot ==
    fn.pc = "adfCompared" =>
        /\ SameButMarkOrder(fn.first, fn.second) => fn.result
        /\ WithoutMarks(fn.first) # WithoutMarks(fn.second) => ~fn.result

\* C27 as stated: over the publish() calls made on one Publisher, a single
\* getCurrentUser call is made.
C27_SingleGetCurrentUserCall == pub.identityCalls <= 1

\* C27: over the publish() calls made on one Publisher the acting identity
\* is fetched at most once: a call of getCurrentUser that succeeded is never
\* repeated, a call that rejected is repeated by the next publish(); the
\* cached account id is the one every publish unit is checked against.
C27_IdentityFetchedOnceAndReused ==
    /\ pub.identityFetches <= 1
    /\ pub.identityFetches = 1 <=> pub.myAccountId = Me
    /\ pub.identityCalls <= pub.run
    /\ pub.identityCalls > 1 => pub.identityFetches < pub.identityCalls
    /\ \A n \in Nodes :
          IsUnit(n) =>
              /\ pub.identityFetches = 1
              /\ unit[n].reason = "identity-conflict" <=> unit[n].lastUpdatedBy # Me

\* A second publish() has published a unit on the identity cached by the
\* first.
C27_Witness ==
    /\ pub.run = 2
    /\ pub.identityCalls = 1
    /\ pub.identityFetches = 1
    /\ "users.getCurrentUser" \notin hist.runCalls
    /\ \E n \in Nodes : unit[n].pc = "done"

\* C38: isEqual is reflexive and symmetric: isEqual(a, a) is true and
\* isEqual(a, b) = isEqual(b, a) for all plain nested values a and b.
C38_IsEqualReflexiveAndSymmetric ==
    fn.pc = "compared" =>
        /\ isEqualValue(fn.obj1, fn.obj1)
        /\ fn.result = isEqualValue(fn.obj2, fn.obj1)

\* The remote calls of a publish unit.
UnitOps == {"getAttachments", "upload", "update", "getLabels", "remove", "add"}

\* The snapshot of the unit's page is of another content type than the
\* document.
OtherContentType(n) ==
    IsUnit(n) /\ unit[n].existingPageData.contentType # files[n].contentType

\* C35 as stated: a publish unit whose snapshot content type is not the
\* document's fails with the content-type-conversion error and no remote
\* call of the unit is issued.
C35_ContentTypeMismatchFailsWithConversionError ==
    \A n \in Nodes :
        OtherContentType(n) =>
            /\ unit[n].pc = "failed"
            /\ unit[n].reason = "content-type-conversion"
            /\ \A op \in UnitOps : hist.calls[unit[n].pageId][op] = 0

\* C35: a publish unit whose snapshot content type is not the document's
\* fails before any remote call of the unit, with the content-type-conversion
\* error when the snapshot's last editor is the acting identity and with the
\* identity-conflict error otherwise.
C35_ContentTypeMismatchFailsBeforeAnyCall ==
    \A n \in Nodes :
        OtherContentType(n) =>
            /\ unit[n].pc = "failed"
            /\ unit[n].reason = IF unit[n].lastUpdatedBy = pub.myAccountId
                                   THEN "content-type-conversion"
                                   ELSE "identity-conflict"
            /\ \A op \in UnitOps : hist.calls[unit[n].pageId][op] = 0

\* A run returned with a unit failed on the content type while another unit
\* was published.
C35_Witness ==
    /\ pub.pc = "returned"
    /\ \E n \in Nodes :
          /\ OtherContentType(n)
          /\ unit[n].reason = "content-type-conversion"
          /\ \E m \in Nodes \ {n} : unit[m].pc = "done"

\* The place of each remote call in a publish unit.
RankOfOp ==
    [op \in UnitOps |->
        CASE op = "getAttachments" -> 1 [] op = "upload" -> 2 [] op = "update" -> 3
          [] op = "getLabels" -> 4 [] op = "remove" -> 5 [] op = "add" -> 6]

\* C36: within one publish unit the remote calls are issued in the order one
\* read of the attachments, the uploads, at most one updateContent, one read
\* of the labels, the label removals, at most one label add; the attachment
\* index of the unit is the one its own read returned and stays the unit's.
C36_UnitCallsInOrder ==
    [][\A n \in Nodes :
          /\ \A op \in UnitOps :
                (IsUnit(n)' /\ hist'.calls[unit'[n].pageId][op] > hist.calls[unit'[n].pageId][op]) =>
                    LET before == hist.calls[unit'[n].pageId] IN
                    /\ \A later \in UnitOps : RankOfOp[later] > RankOfOp[op] => before[later] = 0
                    /\ op \in {"getAttachments", "update", "getLabels", "add"} => before[op] = 0
                    /\ op # "getAttachments" => before["getAttachments"] = 1
                    /\ op \in {"remove", "add"} => before["getLabels"] = 1
          /\ (unit[n].pc = "getAttachments" /\ unit'[n].pc \notin {"getAttachments", "failed"}) =>
                unit'[n].currentAttachments = remote[unit[n].pageId].att
          /\ (unit[n].pc \notin {"idle", "getAttachments"} /\ IsUnit(n)') =>
                unit'[n].currentAttachments = unit[n].currentAttachments
      ]_vars

\* A unit is done after every kind of call: the read of the attachments, an
\* upload, the update, the read of the labels, a removal and the add.
C36_Witness ==
    \E n \in Nodes :
        /\ unit[n].pc = "done"
        /\ \A op \in UnitOps : hist.calls[unit[n].pageId][op] >= 1

\* The nodes whose absolute file path is the filter.
Filtered == {n \in Nodes : PathOf[n] = pub.filter}

\* C37: with a single-file filter the attachment, updateContent and label
\* calls are issued only for the units whose file path is the filter and the
\* results are those of exactly these units, while every node of the tree
\* is resolved: looked up or created, and written back.
C37_FilterKeepsResolutionOfEveryNode ==
    (pub.filter # "" /\ pub.pc \in {"publishing", "returned"}) =>
        /\ \A n \in Nodes :
              /\ rnode[n].pc = "done"
              /\ rnode[n].via \in {"id", "title", "create"}
              /\ rnode[n].via = "create" => hist.calls[NewId[n]]["create"] = 1
              /\ meta[n] = [publish |-> "true", pageId |-> rnode[n].details.id]
              /\ IsUnit(n) <=> n \in Filtered
              /\ n \notin Filtered =>
                    \A op \in UnitOps : hist.calls[rnode[n].details.id][op] = 0
        /\ pub.pc = "returned" =>
              /\ Len(pub.results) = Cardinality(Filtered)
              /\ {pub.results[i].node : i \in DOMAIN pub.results} = Filtered

\* A filtered run returned the result of the one unit it published, after a
\* page was created for the other node, which got no unit call.
C37_Witness ==
    /\ pub.pc = "returned"
    /\ pub.filter # ""
    /\ \E n, m \in Nodes :
          /\ n \in Filtered /\ unit[n].pc = "done"
          /\ hist.calls[unit[n].pageId]["update"] = 1
          /\ m \notin Filtered /\ rnode[m].via = "create"
          /\ hist.calls[NewId[m]]["create"] = 1
          /\ unit[m].pc = "idle"

\* C33: no two publish units of one run carry the same remote page id, and
\* no two of them issue an update with the same page id and version number.
C33_UnitsHaveDistinctPages ==
    \A n, m \in Nodes :
        (n # m /\ IsUnit(n) /\ IsUnit(m)) =>
            /\ unit[n].pageId # unit[m].pageId
            /\ (unit[n].result.contentResult = "updated"
                  /\ unit[m].result.contentResult = "updated") =>
                  \/ unit[n].updateContentDetails.id # unit[m].updateContentDetails.id
                  \/ unit[n].updateContentDetails.version # unit[m].updateContentDetails.version

\* A resolver task or a publish task is waiting for a call to return.
ResolverInFlight(n) ==
    rnode[n].pc \in {"getContentById", "getContent", "createContent", "recordFound",
                     "recordNotFound"}

UnitInFlight(n) == unit[n].pc \in DOMAIN OpOfPc

\* C34: once publish() has resolved or rejected, no call started by the run
\* is in flight or still to be issued; a unit reported failed has no call in
\* flight.
C34_NothingInFlightOnceSettled ==
    /\ pub.pc \in {"returned", "rejected"} =>
          \A n \in Nodes : ~ResolverInFlight(n) /\ ~UnitInFlight(n)
    /\ \A n \in Nodes : unit[n].pc = "failed" => ~UnitInFlight(n)

\* A path of the form /wiki/spaces/<space>/pages/<id>[/<slug>].
PageForm(path) ==
    /\ Len(path) \in {5, 6}
    /\ path[1] = "wiki" /\ path[2] = "spaces" /\ path[3] \in SpaceKeys /\ path[4] = "pages"
    /\ path[5] = "123"

\* C32: not a URL gives "#"; a URL of another host, or whose path is not of
\* the form /wiki/spaces/<space>/pages/<id>[/<slug>], is returned unchanged;
\* a matching URL is returned with its path reduced to
\* /wiki/spaces/<space>/pages/<id>, query and fragment kept; the function
\* returns its own result unchanged.
C32_CleanUpUrlIfConfluence ==
    fn.pc = "cleaned" =>
        LET in == fn.input
            out == fn.result
        IN /\ ~in.valid => out = Hash
           /\ (in.valid /\ (in.host # ConfluenceHost \/ ~PageForm(in.path))) => out = in
           /\ (in.valid /\ in.host = ConfluenceHost /\ PageForm(in.path)) =>
                 out = [in EXCEPT !.spelled = "href", !.path = SubSeq(in.path, 1, 5)]
           /\ cleanUpUrlIfConfluence(out) = out

\* The blockquote_close that matches the blockquote_open at position i.
CloseOf(ts, i) ==
    LET Count(type, m) == Cardinality({k \in i..m : ts[k].type = type})
    IN CHOOSE m \in (i + 1)..Len(ts) :
          /\ ts[m].type = "blockquote_close"
          /\ Count("blockquote_open", m) = Count("blockquote_close", m)
          /\ \A k \in (i + 1)..(m - 1) :
                Count("blockquote_open", k) # Count("blockquote_close", k)

\* The blockquote opened at i has callout syntax in its own paragraph.
IsCallout(ts, i) == CollapseType(ts[i + 2].content) # "no match"

\* C39: a blockquote_close is rewritten to panel_close or expand_close only
\* if its blockquote_open was rewritten to the open of the same kind; a
\* blockquote without callout syntax that follows a callout or is nested in
\* one keeps its blockquote_open and its blockquote_close.
C39_CalloutRuleKeepsTokensBalanced ==
    fn.pc = "rewritten" =>
        \A i \in DOMAIN fn.tokens :
            fn.tokens[i].type = "blockquote_open" =>
                LET open == fn.result[i].type
                    close == fn.result[CloseOf(fn.tokens, i)].type
                IN /\ close = "panel_close" => open = "panel_open"
                   /\ close = "expand_close" => open = "expand_open"
                   /\ (/\ ~IsCallout(fn.tokens, i)
                       /\ \E j \in 1..(i - 1) : /\ fn.tokens[j].type = "blockquote_open"
                                                /\ IsCallout(fn.tokens, j)) =>
                         open = "blockquote_open" /\ close = "blockquote_close"

\* C40: a response with status >= 400 reaches the caller of sendRequest as a
\* thrown Error instance carrying response.status and its message, so the
\* resolver's 404 branch is taken on a 404 and a failed unit's reason is the
\* error's message.
C40_HttpErrorReachesCallerAsError ==
    (fn.pc \in {"answered", "threw"} /\ ~fn.response.rejects /\ fn.response.status >= 400) =>
        /\ fn.pc = "threw"
        /\ fn.thrown.instanceofError
        /\ fn.thrown.status = fn.response.status
        /\ fn.thrown.message = ReceivedA(fn.response.status)
        /\ fn.response.status = 404 => fn.notFound
        /\ fn.reason = ReceivedA(fn.response.status)

\* C31: when the page of a pinned id comes without space information the
\* resolver falls back to the confluenceSpaceKey configured in a settings
\* source, the configuration file included; with none configured it fails
\* with the diagnostic and writes nothing back.
C31_SpaceKeyFallsBackToConfiguredKey ==
    (fn.pc \in {"pinnedResolved", "pinnedThrew"} /\ fn.space = "") =>
        IF "confluenceSpaceKey" \in DOMAIN fn.config
           THEN /\ fn.pc = "pinnedResolved"
                /\ fn.spaceKey = fn.config["confluenceSpaceKey"].v
           ELSE /\ fn.pc = "pinnedThrew"
                /\ fn.thrown.message = FailedToRetrieveSpaceKey
                /\ fn.writeBack = "none"

====
